---- MODULE Spec2Model ----
(***************************************************************************)
(* A model of three pieces of the Tigera operator:                         *)
(*   - the deep packet inspection renderer (package dpi),                  *)
(*   - the Reconcile passes of the API server, cluster connection and      *)
(*     compliance controllers.                                             *)
(* The renderer is a pure function of its configuration and is modelled by *)
(* operators; SpecDPI draws a configuration and applies Objects to it.     *)
(* The controllers are modelled step by step; Spec runs the passes of one  *)
(* controller against a cluster whose inputs the environment may change    *)
(* between passes.                                                         *)
(***************************************************************************)
EXTENDS Integers, Sequences, FiniteSets, TLC

VARIABLES
    \* ---- package dpi ----
    cfg,        \* the DPIConfig handed to DPI()
    dpiPhase,   \* "configured" before Objects() was called, "rendered" after
    toCreate,   \* first result of Objects()
    toDelete,   \* second result of Objects()
    dpiPrev,    \* the configuration and result of the render before the last
                \* change of the configuration (<<>> when there was none)
    dpiImage,   \* dpiComponent.dpiImage ("" until ResolveImages stored one)
    \* ---- renderers known by their tests ----
    rcfg,       \* the configuration handed to EsGateway() or
                \* NewElasticsearchKubeControllers()
    robjs,      \* the first result of its Objects() (<<>> before the call)
    \* ---- concurrent passes ----
    caStore,    \* the root authority stored in the operator namespace (0: none)
    k8sEndpoint,  \* the package-level variable k8sapi.Endpoint
    endpointCfg,  \* the endpoint the kubernetes-services-endpoint ConfigMap holds
    cpc,        \* position of each controller's pass
    cloc,       \* local variables of each controller's pass
    issued,     \* the authorities that signed the key pairs issued so far
    \* ---- controllers ----
    ctl,        \* the controller whose passes are run
    pc,         \* position of the running pass inside Reconcile ("idle" between passes)
    loc,        \* local variables of the running pass
    res,        \* what the running (or last) pass did: status calls, result, error
    prev,       \* summary of the pass before the running (or last) one
    cluster,    \* the cluster as far as the controllers read and write it
    \* ---- trusted bundles ----
    bun         \* two trusted bundles being built from one set of certificates

dpiVars  == <<cfg, dpiPhase, toCreate, toDelete, dpiPrev, dpiImage>>
ctlVars  == <<ctl, pc, loc, res, prev, cluster>>
renVars  == <<rcfg, robjs>>
conVars  == <<caStore, k8sEndpoint, endpointCfg, cpc, cloc, issued>>
bunVars  == <<bun>>
vars     == <<cfg, dpiPhase, toCreate, toDelete, dpiPrev, dpiImage,
              ctl, pc, loc, res, prev, cluster,
              rcfg, robjs,
              caStore, k8sEndpoint, endpointCfg, cpc, cloc, issued,
              bun>>

(***************************************************************************)
(* Bounds of the model.                                                    *)
(***************************************************************************)
MaxPullSecrets == 2
MaxESSecrets   == 2
MaxReplicas    == 3
MaxCerts       == 3

(***************************************************************************)
(* Sequences over S of length at most n.                                   *)
(***************************************************************************)
SeqUpTo(S, n) == UNION {[1..k -> S] : k \in 0..n}

(***************************************************************************)
(*                              package dpi                                *)
(***************************************************************************)
DeepPacketInspectionNamespace == "tigera-dpi"
DeepPacketInspectionName      == "tigera-dpi"
PublicCertSecret              == "tigera-secure-es-gateway-http-certs-public"
IntrusionDetectionUserSecret  == "tigera-ee-dpi-elasticsearch-access"
OperatorNamespace             == "tigera-operator"
ManagerInternalTLSSecretName  == "internal-manager-tls"
ProviderNone                  == ""
ProviderOpenShift             == "OpenShift"

PullSecretNames == {"tigera-pull-secret", "other-pull-secret"}
ESSecretNames   == {PublicCertSecret, IntrusionDetectionUserSecret}

\* Fingerprints of certificate material, and the image references an image
\* set can resolve to.
Fingerprints == {"f1", "f2"}
Images       == {"tigera/deep-packet-inspection:a", "tigera/deep-packet-inspection:b"}

\* Keys of the hash annotations: TrustedBundle.HashAnnotations() and
\* NodeSecret.HashAnnotationKey().
TrustedBundleAnnotationKey == "hash.operator.tigera.io/tigera-ca-private"
NodeSecretAnnotationKey    == "hash.operator.tigera.io/node-certs"
ESSecretsAnnotationKey     == "hash.operator.tigera.io/elasticsearch-secrets"

\* The trusted bundles a configuration can carry: a mapping from annotation
\* key to fingerprint, as a set of pairs.
TrustedBundles == { {}, {<<TrustedBundleAnnotationKey, "f1">>} }

\* A secret as the controller read it from the operator namespace.
SecretIn(ns, n) == [kind |-> "Secret", namespace |-> ns, name |-> n, spec |-> <<>>]

DPIConfigs ==
    [ HasNoLicense     : BOOLEAN,
      HasNoDPIResource : BOOLEAN,
      Openshift        : BOOLEAN,
      Provider         : {ProviderNone, ProviderOpenShift},
      UseCertificateManagement : BOOLEAN,   \* TyphaNodeTLS.NodeSecret.UseCertificateManagement()
      NodeSecretHash   : Fingerprints,      \* TyphaNodeTLS.NodeSecret.HashAnnotationValue()
      TrustedBundle    : TrustedBundles,    \* TyphaNodeTLS.TrustedBundle
      PullSecrets      : {[i \in DOMAIN s |-> SecretIn(OperatorNamespace, s[i])] :
                             s \in SeqUpTo(PullSecretNames, MaxPullSecrets)},
      ESSecrets        : {[i \in DOMAIN s |-> SecretIn(OperatorNamespace, s[i])] :
                             s \in SeqUpTo(ESSecretNames, MaxESSecrets)} ]

\* Identity of a resource descriptor.
Identity(o) == <<o.kind, o.namespace, o.name>>

Identities(objs) == {Identity(objs[i]) : i \in 1..Len(objs)}

\* The elements of a list.
Range(objs) == {objs[i] : i \in 1..Len(objs)}

\* render.CreateNamespace
CreateNamespace(n) ==
    [kind |-> "Namespace", namespace |-> "", name |-> n, spec |-> <<>>]

\* secret.CopyToNamespace followed by secret.ToRuntimeObjects: the same secrets,
\* in the same order, in namespace ns.
CopyToNamespace(ns, secrets) ==
    [i \in DOMAIN secrets |-> [secrets[i] EXCEPT !.namespace = ns]]

dpiServiceAccount(c) ==
    [kind |-> "ServiceAccount", namespace |-> DeepPacketInspectionNamespace,
     name |-> DeepPacketInspectionName, spec |-> <<>>]

dpiClusterRoleBinding(c) ==
    [kind |-> "ClusterRoleBinding", namespace |-> "",
     name |-> DeepPacketInspectionName,
     spec |-> [roleRef  |-> <<"ClusterRole", DeepPacketInspectionName>>,
               subjects |-> <<<<"ServiceAccount", DeepPacketInspectionNamespace,
                                DeepPacketInspectionName>>>>]]

dpiClusterRole(c) ==
    LET rules == << [resources |-> {"deeppacketinspections"},
                     verbs     |-> {"get", "list", "watch"}],
                    [resources |-> {"deeppacketinspections/status"},
                     verbs     |-> {"update"}],
                    [resources |-> {"endpoints", "services"},
                     verbs     |-> {"watch", "list", "get"}] >>
        psp   == [resources |-> {"podsecuritypolicies"}, verbs |-> {"use"}]
    IN  [kind |-> "ClusterRole", namespace |-> "",
         name |-> DeepPacketInspectionName,
         spec |-> IF c.Provider # ProviderOpenShift
                  THEN Append(rules, psp) ELSE rules]

\* m with key k set to v.
MapPut(m, k, v) == {p \in m : p[1] # k} \cup {<<k, v>>}

\* TrustedBundle.HashAnnotations(): the mapping from annotation key to
\* fingerprint, handed out as a value of its own.
HashAnnotations(b) == b

\* A dpiAnnotations that stamps the trusted bundle only.
dpiAnnotationsBundleOnly(c) ==
    IF c.HasNoDPIResource \/ c.HasNoLicense
    THEN {}
    ELSE HashAnnotations(c.TrustedBundle)

\* dpiComponent.dpiAnnotations ({} is the nil map)
dpiAnnotations(c) ==
    IF c.HasNoDPIResource \/ c.HasNoLicense
    THEN {}
    ELSE MapPut(HashAnnotations(c.TrustedBundle), NodeSecretAnnotationKey,
                c.NodeSecretHash)

\* relasticsearch.DecorateAnnotations: adds the hash of the Elasticsearch
\* secrets to the pod template's annotations.
DecorateAnnotations(ann, c) ==
    MapPut(ann, ESSecretsAnnotationKey, [i \in DOMAIN c.ESSecrets |-> c.ESSecrets[i].name])

\* TrustedBundle.Volume(): the ConfigMap holding the bundle.
TrustedBundleVolume ==
    [name |-> "tigera-ca-bundle", source |-> "configMap", ref |-> "tigera-ca-bundle"]

\* NodeSecret.Volume(): the secret holding the key pair, or, with certificate
\* management, an empty volume the init container fills.
NodeSecretVolume(c) ==
    IF c.UseCertificateManagement
    THEN [name |-> "node-certs", source |-> "emptyDir", ref |-> ""]
    ELSE [name |-> "node-certs", source |-> "secret", ref |-> "node-certs"]

\* NodeSecret.InitContainer(DeepPacketInspectionNamespace)
NodeSecretInitContainer ==
    [name |-> "node-certs-key-cert-provisioner", volumeMounts |-> << "node-certs" >>]

\* dpiComponent.dpiVolumeMounts
dpiVolumeMounts(c) == << "tigera-ca-bundle", "node-certs", "log-snort-alters" >>

dpiContainer(c) ==
    [name         |-> DeepPacketInspectionName,
     image        |-> dpiImage,
     privileged   |-> c.Openshift,
     volumeMounts |-> dpiVolumeMounts(c),
     \* relasticsearch.ContainerDecorate: the Elasticsearch user secret the
     \* environment refers to
     envSecrets   |-> {IntrusionDetectionUserSecret}]

dpiVolumes(c) ==
    << TrustedBundleVolume,
       NodeSecretVolume(c),
       [name |-> "log-snort-alters", source |-> "hostPath",
        ref |-> "/var/log/calico/snort-alerts"] >>

\* A dpiDaemonset that adds the init container whatever the key pair says.
dpiDaemonsetAlwaysInit(c) ==
    [kind |-> "DaemonSet", namespace |-> DeepPacketInspectionNamespace,
     name |-> DeepPacketInspectionName,
     spec |-> [annotations        |-> DecorateAnnotations(dpiAnnotations(c), c),
               serviceAccountName |-> DeepPacketInspectionName,
               imagePullSecrets   |-> [i \in DOMAIN c.PullSecrets |->
                                          c.PullSecrets[i].name],
               initContainers     |-> << NodeSecretInitContainer >>,
               containers         |-> << dpiContainer(c) >>,
               volumes            |-> dpiVolumes(c)]]

dpiDaemonset(c) ==
    LET initContainers ==
            IF c.UseCertificateManagement THEN << NodeSecretInitContainer >>
            ELSE << >>
    IN  [kind |-> "DaemonSet", namespace |-> DeepPacketInspectionNamespace,
         name |-> DeepPacketInspectionName,
         spec |-> [annotations        |-> DecorateAnnotations(dpiAnnotations(c), c),
                   serviceAccountName |-> DeepPacketInspectionName,
                   imagePullSecrets   |-> [i \in DOMAIN c.PullSecrets |->
                                              c.PullSecrets[i].name],
                   initContainers     |-> initContainers,
                   containers         |-> << dpiContainer(c) >>,
                   volumes            |-> dpiVolumes(c)]]

\* A renderer that emits the namespace for creation whatever the license says.
ObjectsNamespaceAlways(c) ==
    LET ns == CreateNamespace(DeepPacketInspectionNamespace)
        owned == << dpiServiceAccount(c), dpiClusterRole(c),
                    dpiClusterRoleBinding(c), dpiDaemonset(c) >>
    IN  IF c.HasNoDPIResource \/ c.HasNoLicense
        THEN [toCreate |-> << ns >>,
              toDelete |-> (IF c.HasNoLicense THEN << ns >> ELSE << >>)
                           \o << SecretIn(DeepPacketInspectionNamespace, PublicCertSecret) >>
                           \o CopyToNamespace(DeepPacketInspectionNamespace, c.PullSecrets)
                           \o owned]
        ELSE [toCreate |-> << ns >>
                           \o CopyToNamespace(DeepPacketInspectionNamespace, c.ESSecrets)
                           \o CopyToNamespace(DeepPacketInspectionNamespace, c.PullSecrets)
                           \o owned,
              toDelete |-> << >>]

\* A renderer that gates the namespace on the DPI resource as well.
ObjectsNamespaceGatedOnBoth(c) ==
    LET ns == CreateNamespace(DeepPacketInspectionNamespace)
        gone == c.HasNoDPIResource \/ c.HasNoLicense
        owned == << dpiServiceAccount(c), dpiClusterRole(c),
                    dpiClusterRoleBinding(c), dpiDaemonset(c) >>
    IN  IF gone
        THEN [toCreate |-> << >>,
              toDelete |-> << ns >>
                           \o << SecretIn(DeepPacketInspectionNamespace, PublicCertSecret) >>
                           \o CopyToNamespace(DeepPacketInspectionNamespace, c.PullSecrets)
                           \o owned]
        ELSE [toCreate |-> << ns >>
                           \o CopyToNamespace(DeepPacketInspectionNamespace, c.ESSecrets)
                           \o CopyToNamespace(DeepPacketInspectionNamespace, c.PullSecrets)
                           \o owned,
              toDelete |-> << >>]

\* A renderer that keeps its two lists in the component and appends to them
\* at each call.
ObjectsRetainingLists(c) ==
    LET ns == CreateNamespace(DeepPacketInspectionNamespace)
        create1 == toCreate \o (IF c.HasNoLicense THEN << >> ELSE << ns >>)
        delete1 == toDelete \o (IF c.HasNoLicense THEN << ns >> ELSE << >>)
        owned == << dpiServiceAccount(c), dpiClusterRole(c),
                    dpiClusterRoleBinding(c), dpiDaemonset(c) >>
    IN  IF c.HasNoDPIResource \/ c.HasNoLicense
        THEN [toCreate |-> create1,
              toDelete |-> delete1
                           \o << SecretIn(DeepPacketInspectionNamespace, PublicCertSecret) >>
                           \o CopyToNamespace(DeepPacketInspectionNamespace, c.PullSecrets)
                           \o owned]
        ELSE [toCreate |-> create1
                           \o CopyToNamespace(DeepPacketInspectionNamespace, c.ESSecrets)
                           \o CopyToNamespace(DeepPacketInspectionNamespace, c.PullSecrets)
                           \o owned,
              toDelete |-> delete1]

\* dpiComponent.Objects
\* A renderer that leaves the cluster role binding out of the enabled feature.
ObjectsWithoutRoleBinding(c) ==
    LET ns == CreateNamespace(DeepPacketInspectionNamespace)
        create1 == IF c.HasNoLicense THEN << >> ELSE << ns >>
        delete1 == IF c.HasNoLicense THEN << ns >> ELSE << >>
        owned == << dpiServiceAccount(c), dpiClusterRole(c),
                    dpiClusterRoleBinding(c), dpiDaemonset(c) >>
    IN  IF c.HasNoDPIResource \/ c.HasNoLicense
        THEN [toCreate |-> create1,
              toDelete |-> delete1
                           \o << SecretIn(DeepPacketInspectionNamespace, PublicCertSecret) >>
                           \o CopyToNamespace(DeepPacketInspectionNamespace, c.PullSecrets)
                           \o owned]
        ELSE [toCreate |-> create1
                           \o CopyToNamespace(DeepPacketInspectionNamespace, c.ESSecrets)
                           \o CopyToNamespace(DeepPacketInspectionNamespace, c.PullSecrets)
                           \o << dpiServiceAccount(c), dpiClusterRole(c), dpiDaemonset(c) >>,
              toDelete |-> delete1]

Objects(c) ==
    LET ns == CreateNamespace(DeepPacketInspectionNamespace)
        create1 == IF c.HasNoLicense THEN << >> ELSE << ns >>
        delete1 == IF c.HasNoLicense THEN << ns >> ELSE << >>
        owned == << dpiServiceAccount(c), dpiClusterRole(c),
                    dpiClusterRoleBinding(c), dpiDaemonset(c) >>
    IN  IF c.HasNoDPIResource \/ c.HasNoLicense
        THEN [toCreate |-> create1,
              toDelete |-> delete1
                           \o << SecretIn(DeepPacketInspectionNamespace, PublicCertSecret) >>
                           \o CopyToNamespace(DeepPacketInspectionNamespace, c.PullSecrets)
                           \o owned]
        ELSE [toCreate |-> create1
                           \o CopyToNamespace(DeepPacketInspectionNamespace, c.ESSecrets)
                           \o CopyToNamespace(DeepPacketInspectionNamespace, c.PullSecrets)
                           \o owned,
              toDelete |-> delete1]

(***************************************************************************)
(*                            The controllers                              *)
(***************************************************************************)
Controllers == {"apiserver", "connection", "compliance"}

Calico                 == "Calico"
TigeraSecureEnterprise == "TigeraSecureEnterprise"
Variants               == {"", Calico, TigeraSecureEnterprise}

\* The render.Component values the controllers hand to CreateOrUpdateOrDelete.
Components ==
    { "apiserver", "apiserver-certs", "tunnel-passthrough", "packetcapture",
      "packetcapture-certs", "guardian", "compliance", "compliance-certs" }

\* Contents a self-signed tunnel secret can have; 0 stands for "no secret".
SecretContents == 1..4

\* No object of the component exists in the cluster.
Absent == << >>

\* The secret content embedded in a component's content: its first field.
SecretOf(d) == IF d = Absent THEN 0 ELSE d[1]

InitCluster ==
    [ variant  : Variants,           \* Installation.Spec.Variant
      mc       : BOOLEAN,            \* a ManagementCluster exists
      mcc      : BOOLEAN,            \* a ManagementClusterConnection exists
      tunnel   : {0},                \* content of the stored voltron tunnel secret
      store    : {[c \in Components |-> Absent]},  \* what was applied, per component
      crStatus : {""} ]              \* Status.State of the controller's CR

\* Local variables of a pass, before anything was read.
InitLoc ==
    [ variant     |-> "",
      mc          |-> FALSE,   \* managementCluster != nil
      mcc         |-> FALSE,   \* managementClusterConnection != nil
      tunnelCA    |-> 0,       \* tunnelCASecret (0 is nil)
      passthrough |-> 0,       \* tunnelSecretPassthrough (0 is nil)
      tunnelStored |-> 0,      \* what GetKeyPair returned for the tunnel secret (0 is nil)
      hasNoLicense |-> FALSE,
      authn       |-> "absent",
      components  |-> << >>,
      idx         |-> 1,
      bundle      |-> << >> ]  \* certificates of the trusted bundle, as they were
                               \* added (<< >>: no bundle yet)

\* What a pass has done so far.
InitRes ==
    [ exit         |-> "none",       \* the return statement taken ("none": running)
      err          |-> FALSE,        \* the returned error is non-nil
      requeueAfter |-> 0,            \* Result.RequeueAfter in seconds
      degraded     |-> "untouched",  \* last of SetDegraded ("set") / ClearDegraded ("cleared")
      reason       |-> "",           \* the reason given to the last SetDegraded
      everSet      |-> FALSE,        \* SetDegraded was called in this pass
      everCleared  |-> FALSE,        \* ClearDegraded was called in this pass
      rendered     |-> FALSE,        \* a render.* function was called
      desired      |-> [c \in Components |-> Absent],  \* the rendered content
      applied      |-> << >>,        \* components CreateOrUpdateOrDelete was called for
      applyFailed  |-> FALSE,        \* one of these calls returned an error
      setReady     |-> FALSE,        \* the CR status was written as Ready
      available    |-> "unasked",    \* what r.status.IsAvailable() returned
      checked      |-> {},           \* the prerequisites the pass found satisfied
      generated    |-> FALSE,        \* a self-signed tunnel secret was generated
      keyPair      |-> FALSE,        \* a key pair or certificate was asked of the certificate manager
      mut          |-> 0,            \* components whose objects were created, updated or deleted
      first        |-> "",           \* the first step the pass executed
      inputs       |-> << >> ]       \* the inputs the render depended on

NoPrev == [ complete |-> FALSE, failed |-> FALSE, inputs |-> << >>,
            desired |-> [c \in Components |-> Absent] ]

\* status.StatusManager.SetDegraded
SetDegraded(r, msg) ==
    [r EXCEPT !.degraded = "set", !.reason = msg, !.everSet = TRUE]

\* status.StatusManager.ClearDegraded
ClearDegraded(r) ==
    [r EXCEPT !.degraded = "cleared", !.reason = "", !.everCleared = TRUE]

\* return reconcile.Result{RequeueAfter: rq}, err
Return(r, label, e, rq) ==
    [r EXCEPT !.exit = label, !.err = e, !.requeueAfter = rq]

\* The pass leaves Reconcile with result r.
Leave(r) ==
    /\ res' = r
    /\ pc' = "idle"

\* SetDegraded(msg, err.Error()); return reconcile.Result{}, err
Fail(label, msg) == Leave(Return(SetDegraded(res, msg), label, TRUE, 0))

\* SetDegraded(msg, ...); return reconcile.Result{RequeueAfter: rq}, nil
Wait(label, msg, rq) == Leave(Return(SetDegraded(res, msg), label, FALSE, rq))

\* A call whose only outcomes are success, or an error the pass reports as
\* degraded and returns.
FallibleStep(here, next, label, msg) ==
    /\ pc = here
    /\ \E ok \in BOOLEAN :
          IF ok THEN pc' = next /\ UNCHANGED res
                ELSE Fail(label, msg)
    /\ UNCHANGED <<loc, cluster>>

\* The certificate of the Tigera CA, which every trusted bundle holds.
TigeraCA == "tigera-ca-private"

\* The pass has found the prerequisite named label satisfied.
Checked(r, label) == [r EXCEPT !.checked = @ \cup {label}]

\* The pass has called GetOrCreateKeyPair, GetKeyPair or GetCertificate.
Requested(r) == [r EXCEPT !.keyPair = TRUE]

\* A call to the certificate manager for a key pair or certificate, whose only
\* outcomes are success, or an error reported as degraded and returned.
KeyPairStep(here, next, label, msg) ==
    /\ pc = here
    /\ \E ok \in BOOLEAN :
          IF ok THEN pc' = next /\ res' = Requested(res)
                ELSE Leave(Return(SetDegraded(Requested(res), msg), label, TRUE, 0))
    /\ UNCHANGED <<loc, cluster>>

\* The secrets whose certificates go into guardian's trusted bundle.
TrustedSecretNames == << "tigera-packetcapture-server-tls", "calico-node-prometheus-tls" >>

\* The certificates the controllers put into trusted bundles, besides the CA.
Certificates ==
    { TrustedSecretNames[1], TrustedSecretNames[2], PublicCertSecret,
      ManagerInternalTLSSecretName }

\* The order of the certificates' identities (their names, as strings compare).
IdentityOrder ==
    << TrustedSecretNames[2], ManagerInternalTLSSecretName, TigeraCA,
       TrustedSecretNames[1], PublicCertSecret >>

IdentityRank(c) == CHOOSE i \in 1..Len(IdentityOrder) : IdentityOrder[i] = c

\* The PEM block of a certificate, as one number.
Pem(c) == 7 * IdentityRank(c) + 3

\* certificateManager.CreateTrustedBundle(certificates...): the bundle holds
\* the CA and the certificates, as they were passed.
CreateTrustedBundle(certs) == <<TigeraCA>> \o certs

\* trustedCertBundle.AddCertificates(secret), called as a statement on the
\* bundle that is handed to the renderer afterwards: what the bundle holds
\* after the call.
AddCertificates(b, cert) == Append(b, cert)

\* cert put into a sequence sorted by identity, at its place.
RECURSIVE InsertByIdentity(_, _)
InsertByIdentity(cert, sorted) ==
    IF sorted = << >> THEN <<cert>>
    ELSE IF IdentityRank(cert) <= IdentityRank(Head(sorted))
         THEN <<cert>> \o sorted
         ELSE <<Head(sorted)>> \o InsertByIdentity(cert, Tail(sorted))

\* The certificates of a bundle in the order of their identities.
RECURSIVE SortByIdentity(_)
SortByIdentity(b) ==
    IF b = << >> THEN << >>
    ELSE InsertByIdentity(Head(b), SortByIdentity(Tail(b)))

\* A bundle whose artifact lists the certificates as they were added.
TrustedBundlePemInInsertionOrder(b) ==
    [i \in 1..Len(b) |-> Pem(b[i])]

\* The artifact of a bundle: the PEM blocks of its certificates, concatenated
\* in the order of the certificates' identities.
TrustedBundlePem(b) ==
    LET sorted == SortByIdentity(b)
    IN  [i \in 1..Len(sorted) |-> Pem(sorted[i])]

\* A hash of a sequence of bytes, 16 bits wide.
RECURSIVE Hash(_, _)
Hash(h, bytes) ==
    IF bytes = << >> THEN h
    ELSE Hash((31 * h + Head(bytes)) % 65536, Tail(bytes))

\* The fingerprint of a bundle, computed over its artifact.
TrustedBundleFingerprint(b) == Hash(17, TrustedBundlePem(b))

FirstStep(c) ==
    CASE c = "apiserver"  -> "as_GetAPIServer"
      [] c = "connection" -> "cc_GetInstallation"
      [] c = "compliance" -> "co_GetCompliance"

\* A self-signed secret has a new private key: its content differs from every
\* content the cluster or the previous pass holds.
FreshContent ==
    CHOOSE n \in SecretContents :
        /\ n # cluster.tunnel
        /\ \A c \in Components :
              n \notin {SecretOf(cluster.store[c]), SecretOf(prev.desired[c])}

\* The pass applied every component it had collected, without error.
AppliedAll(r) ==
    /\ r.rendered
    /\ ~r.applyFailed
    /\ r.exit \in {"ready", "notAvailable", "statusUpdateError", "featureNotActive",
                   "converged"}

\* A controller that takes up a failed batch where it stopped.
StartPassResumes ==
    /\ ctl \in Controllers
    /\ pc = "idle"
    /\ IF res.applyFailed
       THEN /\ pc' = CASE ctl = "apiserver"  -> "as_Apply"
                      [] ctl = "connection" -> "cc_Apply"
                      [] ctl = "compliance" -> "co_Apply"
            /\ loc' = loc
            /\ res' = [res EXCEPT !.exit = "none", !.err = FALSE, !.applyFailed = FALSE]
       ELSE /\ pc' = FirstStep(ctl)
            /\ loc' = InitLoc
            /\ res' = [InitRes EXCEPT !.first = FirstStep(ctl)]
    /\ prev' = IF AppliedAll(res)
               THEN [complete |-> TRUE, failed |-> FALSE, inputs |-> res.inputs,
                     desired |-> res.desired]
               ELSE [NoPrev EXCEPT !.failed = res.applyFailed]
    /\ UNCHANGED <<ctl, cluster, dpiVars, renVars, conVars, bunVars>>

\* controller-runtime calls Reconcile: every pass starts at the top of the
\* function with fresh local variables.
StartPass ==
    /\ ctl \in Controllers
    /\ pc = "idle"
    /\ pc' = FirstStep(ctl)
    /\ loc' = InitLoc
    /\ res' = [InitRes EXCEPT !.first = FirstStep(ctl)]
    /\ prev' = IF AppliedAll(res)
               THEN [complete |-> TRUE, failed |-> FALSE, inputs |-> res.inputs,
                     desired |-> res.desired]
               ELSE [NoPrev EXCEPT !.failed = res.applyFailed]
    /\ UNCHANGED <<ctl, cluster, dpiVars, renVars, conVars, bunVars>>

\* Between passes the administrator changes the installation variant, or
\* creates or deletes the ManagementCluster or ManagementClusterConnection.
\* The record of the passes before the change is dropped: what is recorded
\* about a pass is compared with passes that saw the same cluster only.
EnvChange ==
    /\ ctl \in Controllers
    /\ pc = "idle"
    /\ \E v \in Variants, m \in BOOLEAN, n \in BOOLEAN :
          /\ <<v, m, n>> # <<cluster.variant, cluster.mc, cluster.mcc>>
          /\ cluster' = [cluster EXCEPT !.variant = v, !.mc = m, !.mcc = n]
    /\ loc' = InitLoc
    /\ res' = InitRes
    /\ prev' = NoPrev
    /\ UNCHANGED <<ctl, pc, dpiVars, renVars, conVars, bunVars>>

\* utils.ComponentHandler.CreateOrUpdateOrDelete succeeding for component c with
\* rendered content d: the objects are created, updated or deleted where the
\* cluster differs, and left alone where it does not. The passthrough
\* component holds the tunnel secret of the operator namespace.
ApplyTo(cl, c, d) ==
    IF c = "tunnel-passthrough"
    THEN [cl EXCEPT !.tunnel = d[1], !.store[c] = d]
    ELSE [cl EXCEPT !.store[c] = d]

Mutations(cl, c, d) == IF cl.store[c] = d THEN 0 ELSE 1

\* A loop that reports a failed component and goes on to the next one.
ApplyLoopContinues(here, next, msg) ==
    /\ pc = here
    /\ IF loc.idx > Len(loc.components)
       THEN /\ pc' = next
            /\ UNCHANGED <<res, loc, cluster>>
       ELSE LET c == loc.components[loc.idx]
                r == [res EXCEPT !.applied = Append(@, c)]
            IN  \E ok \in BOOLEAN :
                   /\ loc' = [loc EXCEPT !.idx = @ + 1]
                   /\ pc' = here
                   /\ IF ok
                      THEN /\ cluster' = ApplyTo(cluster, c, res.desired[c])
                           /\ res' = [r EXCEPT !.mut = @ + Mutations(cluster, c, res.desired[c])]
                      ELSE /\ res' = SetDegraded([r EXCEPT !.applyFailed = TRUE], msg)
                           /\ UNCHANGED cluster

\* One iteration of "for _, component := range components": the call fails and
\* the pass returns, or it succeeds and the loop goes on.
ApplyLoop(here, next, msg) ==
    /\ pc = here
    /\ IF loc.idx > Len(loc.components)
       THEN /\ pc' = next
            /\ UNCHANGED <<res, loc, cluster>>
       ELSE LET c == loc.components[loc.idx]
                r == [res EXCEPT !.applied = Append(@, c)]
            IN  \E ok \in BOOLEAN :
                   IF ok
                   THEN /\ cluster' = ApplyTo(cluster, c, res.desired[c])
                        /\ res' = [r EXCEPT !.mut = @ + Mutations(cluster, c, res.desired[c])]
                        /\ loc' = [loc EXCEPT !.idx = @ + 1]
                        /\ pc' = here
                   ELSE /\ Leave(Return(SetDegraded([r EXCEPT !.applyFailed = TRUE], msg),
                                        "applyError", TRUE, 0))
                        /\ UNCHANGED <<loc, cluster>>

BothMsg == "having both a ManagementCluster and a ManagementClusterConnection is not supported"

(***************************************************************************)
(*                     ReconcileAPIServer.Reconcile                        *)
(***************************************************************************)
\* utils.GetAPIServer
AS_GetAPIServer ==
    /\ pc = "as_GetAPIServer"
    /\ \E r \in {"found", "notfound", "err"} :
          CASE r = "notfound" -> Leave(Return(res, "crNotFound", FALSE, 0))
            [] r = "err"      -> Fail("crError", "Error querying APIServer")
            [] r = "found"    -> pc' = "as_GetInstallation" /\ UNCHANGED res
    /\ UNCHANGED <<ctl, loc, prev, cluster, dpiVars, renVars, conVars, bunVars>>

\* utils.GetInstallation and the check of the variant
AS_GetInstallation ==
    /\ pc = "as_GetInstallation"
    /\ \E r \in {"found", "notfound", "err"} :
          CASE r = "notfound" ->
                  Fail("installationError", "Installation not found") /\ UNCHANGED loc
            [] r = "err" ->
                  Fail("installationError", "Error querying installation") /\ UNCHANGED loc
            [] r = "found" ->
                  IF cluster.variant = ""
                  THEN /\ Leave(Return(SetDegraded(res, "Waiting for Installation to be ready"),
                                       "variantEmpty", FALSE, 0))
                       /\ UNCHANGED loc
                  ELSE /\ loc' = [loc EXCEPT !.variant = cluster.variant]
                       /\ pc' = "as_CreateCA"
                       /\ UNCHANGED res
    /\ UNCHANGED <<ctl, prev, cluster, dpiVars, renVars, conVars, bunVars>>

\* A pass that reports the failure to create the CA and goes on.
AS_CreateCAGoesOn ==
    /\ pc = "as_CreateCA"
    /\ \E ok \in BOOLEAN :
          /\ pc' = "as_TLSKeyPair"
          /\ res' = IF ok THEN res
                    ELSE Return(SetDegraded(res, "Unable to create the Tigera CA"),
                                "caError", TRUE, 0)
    /\ UNCHANGED <<loc, cluster>>
    /\ UNCHANGED <<ctl, prev, dpiVars, renVars, conVars, bunVars>>

\* certificatemanager.Create
AS_CreateCA ==
    /\ FallibleStep("as_CreateCA", "as_TLSKeyPair", "caError", "Unable to create the Tigera CA")
    /\ UNCHANGED <<ctl, prev, dpiVars, renVars, conVars, bunVars>>

\* certificateManager.GetOrCreateKeyPair for the API server's TLS secret
AS_TLSKeyPair ==
    /\ KeyPairStep("as_TLSKeyPair", "as_PullSecrets", "keyPairError",
                    "Unable to get or create tls key pair")
    /\ UNCHANGED <<ctl, prev, dpiVars, renVars, conVars, bunVars>>

\* utils.GetNetworkingPullSecrets
AS_PullSecrets ==
    /\ FallibleStep("as_PullSecrets",
                    IF loc.variant = TigeraSecureEnterprise
                    THEN "as_GetManagementCluster" ELSE "as_Endpoint",
                    "pullSecretsError", "Error retrieving pull secrets")
    /\ UNCHANGED <<ctl, prev, dpiVars, renVars, conVars, bunVars>>

\* utils.GetManagementCluster
AS_GetManagementCluster ==
    /\ pc = "as_GetManagementCluster"
    /\ \E ok \in BOOLEAN :
          IF ok
          THEN /\ loc' = [loc EXCEPT !.mc = cluster.mc]
               /\ pc' = "as_GetManagementClusterConnection"
               /\ UNCHANGED res
          ELSE Fail("mcError", "Error reading ManagementCluster") /\ UNCHANGED loc
    /\ UNCHANGED <<ctl, prev, cluster, dpiVars, renVars, conVars, bunVars>>

\* utils.GetManagementClusterConnection
AS_GetManagementClusterConnection ==
    /\ pc = "as_GetManagementClusterConnection"
    /\ \E ok \in BOOLEAN :
          IF ok
          THEN /\ loc' = [loc EXCEPT !.mcc = cluster.mcc]
               /\ pc' = "as_CheckTopology"
               /\ UNCHANGED res
          ELSE Fail("mccError", "Error reading ManagementClusterConnection") /\ UNCHANGED loc
    /\ UNCHANGED <<ctl, prev, cluster, dpiVars, renVars, conVars, bunVars>>

\* A pass that goes on with both topologies present.
AS_CheckTopologySkipped ==
    /\ pc = "as_CheckTopology"
    /\ pc' = IF loc.mc THEN "as_Tunnel" ELSE "as_Amazon"
    /\ UNCHANGED <<ctl, loc, res, prev, cluster, dpiVars, renVars, conVars, bunVars>>

\* if managementClusterConnection != nil && managementCluster != nil
AS_CheckTopology ==
    /\ pc = "as_CheckTopology"
    /\ IF loc.mcc /\ loc.mc
       THEN Fail("bothTopologies", BothMsg)
       ELSE /\ pc' = IF loc.mc THEN "as_Tunnel" ELSE "as_Amazon"
            /\ UNCHANGED res
    /\ UNCHANGED <<ctl, loc, prev, cluster, dpiVars, renVars, conVars, bunVars>>

\* A pass that generates a tunnel secret whether or not one is stored.
AS_TunnelAlwaysGenerated ==
    /\ pc = "as_Tunnel"
    /\ \E get \in {"ok", "err"}, create \in {"ok", "err"} :
          LET made == IF create = "ok" THEN FreshContent ELSE 0
              l    == [loc EXCEPT !.tunnelCA = made, !.passthrough = made,
                                  !.tunnelStored = IF get = "ok" THEN cluster.tunnel ELSE 0]
              r    == [res EXCEPT !.generated = (made # 0), !.keyPair = TRUE]
          IN  /\ loc' = l
              /\ IF get = "err"
                 THEN Leave(Return(SetDegraded(r, "Unable to get or create the tunnel secret"),
                                   "tunnelError", TRUE, 0))
                 ELSE pc' = "as_Amazon" /\ res' = r
    /\ UNCHANGED <<ctl, prev, cluster, dpiVars, renVars, conVars, bunVars>>

\* if managementCluster != nil: certificateManager.GetKeyPair for the voltron
\* tunnel secret; when it returns nil, certificatemanagement.CreateSelfSignedSecret,
\* whose error is assigned to a variable of the inner scope; then the check of
\* the error GetKeyPair returned.
AS_Tunnel ==
    /\ pc = "as_Tunnel"
    /\ \E get \in {"ok", "err"}, create \in {"ok", "err"} :
          LET got  == IF get = "ok" THEN cluster.tunnel ELSE 0
              gen  == got = 0
              made == IF gen /\ create = "ok" THEN FreshContent ELSE 0
              l    == IF gen
                      THEN [loc EXCEPT !.tunnelCA = made, !.passthrough = made]
                      ELSE [loc EXCEPT !.tunnelCA = got, !.tunnelStored = got]
              r    == [res EXCEPT !.generated = (made # 0), !.keyPair = TRUE]
          IN  /\ (~gen) => create = "ok"
              /\ loc' = l
              /\ IF get = "err"
                 THEN Leave(Return(SetDegraded(r, "Unable to get or create the tunnel secret"),
                                   "tunnelError", TRUE, 0))
                 ELSE pc' = "as_Amazon" /\ res' = r
    /\ UNCHANGED <<ctl, prev, cluster, dpiVars, renVars, conVars, bunVars>>

\* if r.amazonCRDExists: utils.GetAmazonCloudIntegration ("skip": the CRD does
\* not exist)
AS_Amazon ==
    /\ pc = "as_Amazon"
    /\ \E r \in {"skip", "found", "notfound", "err"} :
          IF r = "err"
          THEN Fail("amazonError", "Error reading AmazonCloudIntegration")
          ELSE pc' = "as_Endpoint" /\ UNCHANGED res
    /\ UNCHANGED <<ctl, loc, prev, cluster, dpiVars, renVars, conVars, bunVars>>

\* utils.GetK8sServiceEndPoint
AS_Endpoint ==
    /\ FallibleStep("as_Endpoint", "as_Render", "endpointError",
                    "Error reading services endpoint configmap")
    /\ UNCHANGED <<ctl, prev, dpiVars, renVars, conVars, bunVars>>

\* The content render.APIServer and the certificate management component
\* produce: a function of the configuration and the key pairs handed in.
APIServerDesired(l) ==
    [c \in Components |->
        CASE c = "apiserver"          -> <<l.tunnelCA, l.variant, l.mc, l.mcc>>
          [] c = "apiserver-certs"    -> <<l.tunnelCA, l.variant>>
          [] c = "tunnel-passthrough" -> IF l.passthrough # 0 THEN <<l.passthrough>> ELSE Absent
          [] c = "packetcapture"      -> IF l.variant = TigeraSecureEnterprise
                                         THEN <<0, l.authn>> ELSE Absent
          [] c = "packetcapture-certs" -> IF l.variant = TigeraSecureEnterprise
                                          THEN <<0>> ELSE Absent
          [] OTHER -> Absent]

\* A pass that puts the passthrough of the tunnel secret first in the list.
AS_RenderPassthroughFirst ==
    /\ pc = "as_Render"
    /\ \E ok \in BOOLEAN :
          IF ok
          THEN /\ loc' = [loc EXCEPT !.components =
                              (IF loc.passthrough # 0 THEN <<"tunnel-passthrough">>
                               ELSE << >>)
                              \o <<"apiserver", "apiserver-certs">>]
               /\ res' = [res EXCEPT !.rendered = TRUE]
               /\ pc' = IF loc.variant = TigeraSecureEnterprise
                        THEN "as_PacketCapture" ELSE "as_ApplyImageSet"
          ELSE Fail("renderError", "Error rendering APIServer") /\ UNCHANGED loc
    /\ UNCHANGED <<ctl, prev, cluster, dpiVars, renVars, conVars, bunVars>>

\* render.APIServer(&apiServerCfg) and the list of components built from it
AS_Render ==
    /\ pc = "as_Render"
    /\ \E ok \in BOOLEAN :
          IF ok
          THEN /\ loc' = [loc EXCEPT !.components =
                              <<"apiserver", "apiserver-certs">>
                              \o (IF loc.passthrough # 0 THEN <<"tunnel-passthrough">>
                                  ELSE << >>)]
               /\ res' = [res EXCEPT !.rendered = TRUE]
               /\ pc' = IF loc.variant = TigeraSecureEnterprise
                        THEN "as_PacketCapture" ELSE "as_ApplyImageSet"
          ELSE Fail("renderError", "Error rendering APIServer") /\ UNCHANGED loc
    /\ UNCHANGED <<ctl, prev, cluster, dpiVars, renVars, conVars, bunVars>>

\* if variant == TigeraSecureEnterprise: the packet capture key pair, the
\* Authentication CR, the key validator configuration, render.PacketCaptureAPI
AS_PacketCapture ==
    /\ pc = "as_PacketCapture"
    /\ \E r \in {"keyPairErr", "authnErr", "keyValidatorErr", "ok"},
          a \in {"absent", "Ready"} :
          CASE r = "keyPairErr" ->
                  /\ a = "absent"
                  /\ Leave(Return(SetDegraded(Requested(res),
                                   "Error retrieve or creating packet capture TLS certificate"),
                                  "keyPairError", TRUE, 0))
                  /\ UNCHANGED loc
            [] r = "authnErr" ->
                  /\ a = "absent"
                  /\ Leave(Return(SetDegraded(Requested(res), "Error querying Authentication"),
                                  "authnError", TRUE, 0))
                  /\ UNCHANGED loc
            [] r = "keyValidatorErr" ->
                  /\ a = "absent"
                  /\ Leave(Return(SetDegraded(Requested(res),
                                              "Failed to process the authentication CR."),
                                  "keyValidatorError", TRUE, 0))
                  /\ UNCHANGED loc
            [] r = "ok" ->
                  /\ loc' = [loc EXCEPT !.authn = a,
                                        !.components = @ \o <<"packetcapture",
                                                              "packetcapture-certs">>]
                  /\ pc' = "as_ApplyImageSet"
                  /\ res' = Requested(res)
    /\ UNCHANGED <<ctl, prev, cluster, dpiVars, renVars, conVars, bunVars>>

\* imageset.ApplyImageSet
AS_ApplyImageSet ==
    /\ pc = "as_ApplyImageSet"
    /\ \E ok \in BOOLEAN :
          IF ok
          THEN /\ res' = [res EXCEPT !.desired = APIServerDesired(loc),
                                     !.inputs = <<loc.variant, loc.mc, loc.mcc, loc.authn>>]
               /\ pc' = "as_Apply"
          ELSE Fail("imageSetError", "Error with images from ImageSet")
    /\ UNCHANGED <<ctl, loc, prev, cluster, dpiVars, renVars, conVars, bunVars>>

\* for _, component := range components { handler.CreateOrUpdateOrDelete(...) }
AS_Apply ==
    /\ ApplyLoop("as_Apply", "as_Finish", "Error creating / updating resource")
    /\ UNCHANGED <<ctl, prev, dpiVars, renVars, conVars, bunVars>>

\* A pass that writes the Ready status without asking the status manager.
FinishWithoutIsAvailable(here) ==
    /\ pc = here
    /\ \E available \in BOOLEAN, updated \in BOOLEAN :
          LET r == [ClearDegraded(res) EXCEPT
                        !.available = IF available THEN "yes" ELSE "no"]
          IN  IF updated
              THEN /\ Leave(Return([r EXCEPT !.setReady = TRUE], "ready", FALSE, 0))
                   /\ cluster' = [cluster EXCEPT !.crStatus = "Ready"]
              ELSE /\ Leave(Return(r, "statusUpdateError", TRUE, 0))
                   /\ UNCHANGED cluster
    /\ UNCHANGED loc

\* A pass that asks for no other pass when the status manager is not available.
FinishWithoutRequeue(here) ==
    /\ pc = here
    /\ \E available \in BOOLEAN, updated \in BOOLEAN :
          LET r == [ClearDegraded(res) EXCEPT
                        !.available = IF available THEN "yes" ELSE "no"]
          IN  IF ~available
              THEN /\ updated
                   /\ Leave(Return(r, "notAvailable", FALSE, 0))
                   /\ UNCHANGED cluster
              ELSE IF updated
                   THEN /\ Leave(Return([r EXCEPT !.setReady = TRUE], "ready", FALSE, 0))
                        /\ cluster' = [cluster EXCEPT !.crStatus = "Ready"]
                   ELSE /\ Leave(Return(r, "statusUpdateError", TRUE, 0))
                        /\ UNCHANGED cluster
    /\ UNCHANGED loc

\* ClearDegraded, IsAvailable, and the update of the CR status.
Finish(here) ==
    /\ pc = here
    /\ \E available \in BOOLEAN, updated \in BOOLEAN :
          LET r == [ClearDegraded(res) EXCEPT
                        !.available = IF available THEN "yes" ELSE "no"]
          IN  IF ~available
              THEN /\ updated
                   /\ Leave(Return(r, "notAvailable", FALSE, 30))
                   /\ UNCHANGED cluster
              ELSE IF updated
                   THEN /\ Leave(Return([r EXCEPT !.setReady = TRUE], "ready", FALSE, 0))
                        /\ cluster' = [cluster EXCEPT !.crStatus = "Ready"]
                   ELSE /\ Leave(Return(r, "statusUpdateError", TRUE, 0))
                        /\ UNCHANGED cluster
    /\ UNCHANGED loc

AS_Finish ==
    /\ Finish("as_Finish")
    /\ UNCHANGED <<ctl, prev, dpiVars, renVars, conVars, bunVars>>

(***************************************************************************)
(*                     ReconcileConnection.Reconcile                       *)
(***************************************************************************)
\* utils.GetInstallation: its error is returned without a status call.
CC_GetInstallation ==
    /\ pc = "cc_GetInstallation"
    /\ \E ok \in BOOLEAN :
          IF ok
          THEN /\ loc' = [loc EXCEPT !.variant = cluster.variant]
               /\ pc' = "cc_GetManagementCluster"
               /\ UNCHANGED res
          ELSE /\ Leave(Return(res, "installationError", TRUE, 0))
               /\ UNCHANGED loc
    /\ UNCHANGED <<ctl, prev, cluster, dpiVars, renVars, conVars, bunVars>>

\* utils.GetManagementCluster
CC_GetManagementCluster ==
    /\ pc = "cc_GetManagementCluster"
    /\ \E ok \in BOOLEAN :
          IF ok
          THEN /\ loc' = [loc EXCEPT !.mc = cluster.mc]
               /\ pc' = "cc_GetManagementClusterConnection"
               /\ UNCHANGED res
          ELSE Fail("mcError", "Error reading ManagementCluster") /\ UNCHANGED loc
    /\ UNCHANGED <<ctl, prev, cluster, dpiVars, renVars, conVars, bunVars>>

\* utils.GetManagementClusterConnection; without a connection the pass ends
\* with OnCRNotFound.
CC_GetManagementClusterConnection ==
    /\ pc = "cc_GetManagementClusterConnection"
    /\ \E ok \in BOOLEAN :
          IF ~ok
          THEN Fail("mccError", "Error querying ManagementClusterConnection")
               /\ UNCHANGED loc
          ELSE IF ~cluster.mcc
               THEN Leave(Return(res, "crNotFound", FALSE, 0)) /\ UNCHANGED loc
               ELSE /\ loc' = [loc EXCEPT !.mcc = TRUE]
                    /\ pc' = "cc_CheckTopology"
                    /\ UNCHANGED res
    /\ UNCHANGED <<ctl, prev, cluster, dpiVars, renVars, conVars, bunVars>>

\* if managementClusterConnection != nil && managementCluster != nil
CC_CheckTopology ==
    /\ pc = "cc_CheckTopology"
    /\ IF loc.mcc /\ loc.mc
       THEN Fail("bothTopologies", BothMsg)
       ELSE pc' = "cc_PullSecrets" /\ UNCHANGED res
    /\ UNCHANGED <<ctl, loc, prev, cluster, dpiVars, renVars, conVars, bunVars>>

\* utils.GetNetworkingPullSecrets
CC_PullSecrets ==
    /\ FallibleStep("cc_PullSecrets", "cc_CreateCA", "pullSecretsError",
                    "Error retrieving pull secrets")
    /\ UNCHANGED <<ctl, prev, dpiVars, renVars, conVars, bunVars>>

\* certificatemanager.Create
CC_CreateCA ==
    /\ FallibleStep("cc_CreateCA", "cc_TunnelSecret", "caError",
                    "Unable to create the Tigera CA")
    /\ UNCHANGED <<ctl, prev, dpiVars, renVars, conVars, bunVars>>

\* r.Client.Get of the guardian tunnel secret. Any error is reported as
\* degraded; the error is returned when it is a not-found error, and nil is
\* returned when it is any other error. When the secret is found,
\* certificateManager.CreateTrustedBundle() produces the bundle.
CC_TunnelSecret ==
    /\ pc = "cc_TunnelSecret"
    /\ \E r \in {"found", "notfound", "err"} :
          CASE r = "found" ->
                  /\ loc' = [loc EXCEPT !.bundle = CreateTrustedBundle(<< >>)]
                  /\ pc' = "cc_GetCertificate"
                  /\ UNCHANGED res
            [] r = "err" ->
                  /\ Leave(Return(SetDegraded(res, "Error retrieving secrets from guardian namespace"),
                                  "tunnelSecretError", FALSE, 0))
                  /\ UNCHANGED loc
            [] r = "notfound" ->
                  /\ Leave(Return(SetDegraded(res, "Error retrieving secrets from guardian namespace"),
                                  "tunnelSecretNotFound", TRUE, 0))
                  /\ UNCHANGED loc
    /\ UNCHANGED <<ctl, prev, cluster, dpiVars, renVars, conVars, bunVars>>

\* One iteration of the loop over TrustedSecretNames:
\* certificateManager.GetCertificate and trustedCertBundle.AddCertificates.
CC_GetCertificate ==
    /\ pc = "cc_GetCertificate"
    /\ IF loc.idx > Len(TrustedSecretNames)
       THEN /\ loc' = [loc EXCEPT !.idx = 1]
            /\ pc' = "cc_Render"
            /\ UNCHANGED res
       ELSE \E r \in {"found", "nil", "err"} :
               CASE r = "err" ->
                       /\ Leave(Return(SetDegraded(Requested(res), "Failed to retrieve secret"),
                                       "certificateError", TRUE, 0))
                       /\ UNCHANGED loc
                 [] r = "nil" ->
                       /\ Leave(Return(SetDegraded(Requested(res),
                                                   "Waiting for secret to become available"),
                                       "trustedCertMissing", FALSE, 5))
                       /\ UNCHANGED loc
                 [] r = "found" ->
                       /\ loc' = [loc EXCEPT
                                    !.idx = @ + 1,
                                    !.bundle = AddCertificates(@, TrustedSecretNames[loc.idx])]
                       /\ pc' = "cc_GetCertificate"
                       /\ res' = Requested(res)
    /\ UNCHANGED <<ctl, prev, cluster, dpiVars, renVars, conVars, bunVars>>

\* The content render.Guardian produces.
GuardianDesired(l) ==
    [c \in Components |-> IF c = "guardian" THEN <<0, l.variant>> ELSE Absent]

\* render.Guardian(guardianCfg)
CC_Render ==
    /\ pc = "cc_Render"
    /\ loc' = [loc EXCEPT !.components = <<"guardian">>]
    /\ res' = [res EXCEPT !.rendered = TRUE]
    /\ pc' = "cc_ApplyImageSet"
    /\ UNCHANGED <<ctl, prev, cluster, dpiVars, renVars, conVars, bunVars>>

\* imageset.ApplyImageSet
CC_ApplyImageSet ==
    /\ pc = "cc_ApplyImageSet"
    /\ \E ok \in BOOLEAN :
          IF ok
          THEN /\ res' = [res EXCEPT !.desired = GuardianDesired(loc),
                                     !.inputs = <<loc.variant, loc.mc, loc.mcc>>]
               /\ pc' = "cc_Apply"
          ELSE Fail("imageSetError", "Error with images from ImageSet")
    /\ UNCHANGED <<ctl, loc, prev, cluster, dpiVars, renVars, conVars, bunVars>>

\* ch.CreateOrUpdateOrDelete(ctx, component, r.status)
CC_Apply ==
    /\ ApplyLoop("cc_Apply", "cc_Finish", "Error creating / updating resource")
    /\ UNCHANGED <<ctl, prev, dpiVars, renVars, conVars, bunVars>>

\* r.status.ClearDegraded(); return result, nil
CC_Finish ==
    /\ pc = "cc_Finish"
    /\ Leave(Return(ClearDegraded(res), "converged", FALSE, 0))
    /\ UNCHANGED <<ctl, loc, prev, cluster, dpiVars, renVars, conVars, bunVars>>

(***************************************************************************)
(*                     ReconcileCompliance.Reconcile                       *)
(***************************************************************************)
\* GetCompliance
CO_GetCompliance ==
    /\ pc = "co_GetCompliance"
    /\ \E r \in {"found", "notfound", "err"} :
          CASE r = "notfound" -> Leave(Return(res, "crNotFound", FALSE, 0))
            [] r = "err"      -> Fail("crError", "Error querying compliance")
            [] r = "found"    -> /\ pc' = "co_APIServerReady"
                                 /\ res' = Checked(res, "compliance")
    /\ UNCHANGED <<ctl, loc, prev, cluster, dpiVars, renVars, conVars, bunVars>>

\* A pass that goes on while the Tigera API server is not ready.
CO_APIServerReadySkipped ==
    /\ pc = "co_APIServerReady"
    /\ \E ready \in BOOLEAN :
          /\ pc' = "co_LicenseAPIReady"
          /\ res' = IF ready THEN Checked(res, "apiServerReady") ELSE res
    /\ UNCHANGED <<ctl, loc, prev, cluster, dpiVars, renVars, conVars, bunVars>>

\* utils.IsAPIServerReady; the error returned is the nil error of GetCompliance.
CO_APIServerReady ==
    /\ pc = "co_APIServerReady"
    /\ \E ready \in BOOLEAN :
          IF ready THEN pc' = "co_LicenseAPIReady" /\ res' = Checked(res, "apiServerReady")
          ELSE Wait("apiServerNotReady", "Waiting for Tigera API server to be ready", 0)
    /\ UNCHANGED <<ctl, loc, prev, cluster, dpiVars, renVars, conVars, bunVars>>

\* A pass that waits for the license API without asking to be called again.
CO_LicenseAPIReadyNoRequeue ==
    /\ pc = "co_LicenseAPIReady"
    /\ \E ready \in BOOLEAN :
          IF ready THEN pc' = "co_FetchLicense" /\ res' = Checked(res, "licenseAPIReady")
          ELSE Wait("licenseAPINotReady", "Waiting for LicenseKeyAPI to be ready", 0)
    /\ UNCHANGED <<ctl, loc, prev, cluster, dpiVars, renVars, conVars, bunVars>>

\* r.licenseAPIReady.IsReady
CO_LicenseAPIReady ==
    /\ pc = "co_LicenseAPIReady"
    /\ \E ready \in BOOLEAN :
          IF ready THEN pc' = "co_FetchLicense" /\ res' = Checked(res, "licenseAPIReady")
          ELSE Wait("licenseAPINotReady", "Waiting for LicenseKeyAPI to be ready", 10)
    /\ UNCHANGED <<ctl, loc, prev, cluster, dpiVars, renVars, conVars, bunVars>>

\* utils.FetchLicenseKey; the license has the compliance feature or has not.
CO_FetchLicense ==
    /\ pc = "co_FetchLicense"
    /\ \E r \in {"active", "inactive", "notfound", "err"} :
          CASE r = "notfound" -> Wait("licenseMissing", "License not found", 10)
                                 /\ UNCHANGED loc
            [] r = "err"      -> Wait("licenseError", "Error querying license", 10)
                                 /\ UNCHANGED loc
            [] OTHER          -> /\ loc' = [loc EXCEPT !.hasNoLicense = (r = "inactive")]
                                 /\ pc' = "co_GetInstallation"
                                 /\ res' = Checked(res, "license")
    /\ UNCHANGED <<ctl, prev, cluster, dpiVars, renVars, conVars, bunVars>>

\* utils.GetInstallation
CO_GetInstallation ==
    /\ pc = "co_GetInstallation"
    /\ \E r \in {"found", "notfound", "err"} :
          CASE r = "notfound" ->
                  Fail("installationError", "Installation not found") /\ UNCHANGED loc
            [] r = "err" ->
                  Fail("installationError", "Error querying installation") /\ UNCHANGED loc
            [] r = "found" ->
                  /\ loc' = [loc EXCEPT !.variant = cluster.variant]
                  /\ pc' = "co_PullSecrets"
                  /\ res' = Checked(res, "installation")
    /\ UNCHANGED <<ctl, prev, cluster, dpiVars, renVars, conVars, bunVars>>

\* utils.GetNetworkingPullSecrets
CO_PullSecrets ==
    /\ FallibleStep("co_PullSecrets", "co_ESClusterConfig", "pullSecretsError",
                    "Failed to retrieve pull secrets")
    /\ UNCHANGED <<ctl, prev, dpiVars, renVars, conVars, bunVars>>

\* utils.GetElasticsearchClusterConfig
CO_ESClusterConfig ==
    /\ pc = "co_ESClusterConfig"
    /\ \E r \in {"found", "notfound", "err"} :
          CASE r = "notfound" ->
                  Wait("esConfigMissing",
                       "Elasticsearch cluster configuration is not available, waiting for it to become available",
                       0)
            [] r = "err" ->
                  Fail("esConfigError", "Failed to get the elasticsearch cluster configuration")
            [] r = "found" -> /\ pc' = "co_GetManagementCluster"
                              /\ res' = Checked(res, "esClusterConfig")
    /\ UNCHANGED <<ctl, loc, prev, cluster, dpiVars, renVars, conVars, bunVars>>

\* utils.GetManagementCluster
CO_GetManagementCluster ==
    /\ pc = "co_GetManagementCluster"
    /\ \E ok \in BOOLEAN :
          IF ok
          THEN /\ loc' = [loc EXCEPT !.mc = cluster.mc]
               /\ pc' = "co_GetManagementClusterConnection"
               /\ UNCHANGED res
          ELSE Fail("mcError", "Error reading ManagementCluster") /\ UNCHANGED loc
    /\ UNCHANGED <<ctl, prev, cluster, dpiVars, renVars, conVars, bunVars>>

\* utils.GetManagementClusterConnection
CO_GetManagementClusterConnection ==
    /\ pc = "co_GetManagementClusterConnection"
    /\ \E ok \in BOOLEAN :
          IF ok
          THEN /\ loc' = [loc EXCEPT !.mcc = cluster.mcc]
               /\ pc' = "co_CheckTopology"
               /\ UNCHANGED res
          ELSE Fail("mccError", "Error reading ManagementClusterConnection") /\ UNCHANGED loc
    /\ UNCHANGED <<ctl, prev, cluster, dpiVars, renVars, conVars, bunVars>>

\* if managementClusterConnection != nil && managementCluster != nil
CO_CheckTopology ==
    /\ pc = "co_CheckTopology"
    /\ IF loc.mcc /\ loc.mc
       THEN Fail("bothTopologies", BothMsg)
       ELSE pc' = "co_ESSecrets" /\ UNCHANGED res
    /\ UNCHANGED <<ctl, loc, prev, cluster, dpiVars, renVars, conVars, bunVars>>

\* utils.ElasticsearchSecrets
CO_ESSecrets ==
    /\ pc = "co_ESSecrets"
    /\ \E r \in {"found", "notfound", "err"} :
          CASE r = "notfound" ->
                  Wait("esSecretsMissing",
                       "Elasticsearch secrets are not available yet, waiting until they become available",
                       0)
            [] r = "err" -> Fail("esSecretsError", "Failed to get Elasticsearch credentials")
            [] r = "found" -> /\ pc' = "co_CreateCA"
                              /\ res' = Checked(res, "esSecrets")
    /\ UNCHANGED <<ctl, loc, prev, cluster, dpiVars, renVars, conVars, bunVars>>

\* certificatemanager.Create
CO_CreateCA ==
    /\ FallibleStep("co_CreateCA",
                    IF loc.mc THEN "co_ManagerInternalCert" ELSE "co_GatewayCert",
                    "caError", "Unable to create the Tigera CA")
    /\ UNCHANGED <<ctl, prev, dpiVars, renVars, conVars, bunVars>>

\* if managementCluster != nil: certificateManager.GetCertificate for the
\* manager's internal TLS secret (a nil certificate is accepted)
CO_ManagerInternalCert ==
    /\ KeyPairStep("co_ManagerInternalCert", "co_GatewayCert", "certificateError",
                    "failed to retrieve / validate internal-manager-tls")
    /\ UNCHANGED <<ctl, prev, dpiVars, renVars, conVars, bunVars>>

\* certificateManager.GetCertificate for the gateway's public certificate, and
\* certificateManager.CreateTrustedBundle(managerInternalTLSSecret, esgwCertificate)
CO_GatewayCert ==
    /\ pc = "co_GatewayCert"
    /\ \E r \in {"found", "nil", "err"} :
          CASE r = "err" ->
                  /\ Leave(Return(SetDegraded(Requested(res),
                                              "Failed to retrieve / validate certificate"),
                                  "certificateError", TRUE, 0))
                  /\ UNCHANGED loc
            [] r = "nil" ->
                  /\ Leave(Return(SetDegraded(Requested(res),
                       "Elasticsearch gateway certificate are not available yet, waiting until they become available"),
                                  "gwCertMissing", FALSE, 0))
                  /\ UNCHANGED loc
            [] r = "found" ->
                  /\ loc' = [loc EXCEPT !.bundle =
                                CreateTrustedBundle(
                                    (IF loc.mc THEN <<ManagerInternalTLSSecretName>>
                                     ELSE << >>)
                                    \o <<PublicCertSecret>>)]
                  /\ pc' = IF ~loc.mcc THEN "co_ServerKeyPair" ELSE "co_Authentication"
                  /\ res' = Checked(Requested(res), "gatewayCert")
    /\ UNCHANGED <<ctl, prev, cluster, dpiVars, renVars, conVars, bunVars>>

\* if managementClusterConnection == nil: certificateManager.GetOrCreateKeyPair
\* for the compliance server
CO_ServerKeyPair ==
    /\ KeyPairStep("co_ServerKeyPair", "co_Authentication", "keyPairError",
                    "failed to retrieve / validate tigera-compliance-server-tls")
    /\ UNCHANGED <<ctl, prev, dpiVars, renVars, conVars, bunVars>>

\* utils.GetAuthentication and the check of its status
CO_Authentication ==
    /\ pc = "co_Authentication"
    /\ \E r \in {"absent", "Ready", "notReady", "err"} :
          CASE r = "err" -> Fail("authnError", "Error querying Authentication")
                            /\ UNCHANGED loc
            [] r = "notReady" -> Wait("authnNotReady", "Authentication is not ready", 0)
                                 /\ UNCHANGED loc
            [] OTHER -> /\ loc' = [loc EXCEPT !.authn = r]
                        /\ pc' = "co_KeyValidator"
                        /\ res' = Checked(res, "authentication")
    /\ UNCHANGED <<ctl, prev, cluster, dpiVars, renVars, conVars, bunVars>>

\* utils.GetKeyValidatorConfig
CO_KeyValidator ==
    /\ FallibleStep("co_KeyValidator", "co_Render", "keyValidatorError",
                    "Failed to process the authentication CR.")
    /\ UNCHANGED <<ctl, prev, dpiVars, renVars, conVars, bunVars>>

\* The content render.Compliance and the certificate management component
\* produce; without the license feature the objects are rendered for deletion.
ComplianceDesired(l) ==
    [c \in Components |->
        CASE c = "compliance" ->
                IF l.hasNoLicense THEN Absent ELSE <<0, l.variant, l.mc, l.mcc, l.authn>>
          [] c = "compliance-certs" -> <<0, l.mcc>>
          [] OTHER -> Absent]

\* render.Compliance(complianceCfg)
CO_Render ==
    /\ pc = "co_Render"
    /\ \E ok \in BOOLEAN :
          IF ok
          THEN /\ res' = [res EXCEPT !.rendered = TRUE]
               /\ pc' = "co_ApplyImageSet"
          ELSE Fail("renderError", "Error rendering Compliance")
    /\ UNCHANGED <<ctl, loc, prev, cluster, dpiVars, renVars, conVars, bunVars>>

\* imageset.ApplyImageSet and the certificate management component
CO_ApplyImageSet ==
    /\ pc = "co_ApplyImageSet"
    /\ \E ok \in BOOLEAN :
          IF ok
          THEN /\ loc' = [loc EXCEPT !.components = <<"compliance", "compliance-certs">>]
               /\ res' = [res EXCEPT !.desired = ComplianceDesired(loc),
                                     !.inputs = <<loc.variant, loc.mc, loc.mcc, loc.authn,
                                                  loc.hasNoLicense>>]
               /\ pc' = "co_Apply"
          ELSE Fail("imageSetError", "Error with images from ImageSet") /\ UNCHANGED loc
    /\ UNCHANGED <<ctl, prev, cluster, dpiVars, renVars, conVars, bunVars>>

\* for _, comp := range []render.Component{comp, certificateComponent}
CO_Apply ==
    /\ ApplyLoop("co_Apply", "co_Finish", "Error creating / updating / deleting resource")
    /\ UNCHANGED <<ctl, prev, dpiVars, renVars, conVars, bunVars>>

\* A pass that ends as the API server controller's whatever the license holds.
CO_FinishWhateverLicense ==
    /\ Finish("co_Finish")
    /\ UNCHANGED <<ctl, prev, dpiVars, renVars, conVars, bunVars>>

\* if hasNoLicense: degraded "Feature is not active"; else as the API server
\* controller ends.
CO_Finish ==
    /\ IF loc.hasNoLicense
       THEN /\ pc = "co_Finish"
            /\ Leave(Return(SetDegraded(res, "Feature is not active"),
                            "featureNotActive", FALSE, 0))
            /\ UNCHANGED <<loc, cluster>>
       ELSE Finish("co_Finish")
    /\ UNCHANGED <<ctl, prev, dpiVars, renVars, conVars, bunVars>>

\* The controller variables while only the renderer is exercised.
CtlIdle ==
    /\ ctl = "none"
    /\ pc = "idle"
    /\ loc = <<>>
    /\ res = <<>>
    /\ prev = <<>>
    /\ cluster = <<>>

\* The variables of the renderers known by their tests, while they are not
\* exercised.
RenIdle ==
    /\ rcfg = << >>
    /\ robjs = << >>

\* The trusted bundles, while none is built.
BunIdle == bun = << >>

\* The variables of the concurrent passes, while they are not exercised.
ConIdle ==
    /\ caStore = 0
    /\ k8sEndpoint = ""
    /\ endpointCfg = ""
    /\ cpc = << >>
    /\ cloc = << >>
    /\ issued = {}

InitDPI ==
    /\ cfg \in DPIConfigs
    /\ dpiPhase = "configured"
    /\ toCreate = << >>
    /\ toDelete = << >>
    /\ dpiPrev = << >>
    /\ dpiImage = ""
    /\ CtlIdle
    /\ RenIdle
    /\ ConIdle
    /\ BunIdle

\* DPI(cfg).Objects()
RenderDPI ==
    /\ dpiPhase = "configured"
    /\ dpiPhase' = "rendered"
    /\ toCreate' = Objects(cfg).toCreate
    /\ toDelete' = Objects(cfg).toDelete
    /\ UNCHANGED <<cfg, dpiPrev, dpiImage, ctlVars, renVars, conVars, bunVars>>

\* The license gains or loses the feature; the controller builds a new
\* DPIConfig that differs in HasNoLicense only, for the next render.
ChangeLicense ==
    /\ dpiPhase = "rendered"
    /\ dpiPrev = << >>
    /\ dpiPrev' = [change |-> "license", cfg |-> cfg, image |-> dpiImage,
                    toCreate |-> toCreate, toDelete |-> toDelete]
    /\ cfg' = [cfg EXCEPT !.HasNoLicense = ~cfg.HasNoLicense]
    /\ dpiPhase' = "configured"
    /\ UNCHANGED <<toCreate, toDelete, dpiImage, ctlVars, renVars, conVars, bunVars>>

\* The node key pair is rotated: same name, new content. The controller builds
\* a new DPIConfig that differs in the key pair's fingerprint only.
RotateNodeSecret ==
    /\ dpiPhase = "rendered"
    /\ dpiPrev = << >>
    /\ dpiPrev' = [change |-> "rotation", cfg |-> cfg, image |-> dpiImage,
                    toCreate |-> toCreate, toDelete |-> toDelete]
    /\ \E f \in Fingerprints \ {cfg.NodeSecretHash} :
          cfg' = [cfg EXCEPT !.NodeSecretHash = f]
    /\ dpiPhase' = "configured"
    /\ UNCHANGED <<toCreate, toDelete, dpiImage, ctlVars, renVars, conVars, bunVars>>

\* dpiComponent.ResolveImages: stores the reference components.GetReference
\* returns ("" with an error), before the first Objects() or between two.
ResolveImages ==
    /\ dpiPrev = << >>
    /\ \E img \in Images \cup {""} :
          /\ img # dpiImage
          /\ dpiImage' = img
    /\ \/ /\ dpiPhase = "configured"
          /\ dpiImage = ""
          /\ UNCHANGED <<dpiPhase, dpiPrev>>
       \/ /\ dpiPhase = "rendered"
          /\ dpiPrev' = [change |-> "images", cfg |-> cfg, image |-> dpiImage,
                          toCreate |-> toCreate, toDelete |-> toDelete]
          /\ dpiPhase' = "configured"
    /\ UNCHANGED <<cfg, toCreate, toDelete, ctlVars, renVars, conVars, bunVars>>

\* Objects() is about to be called once more on the same component.
ObjectsAgain ==
    /\ dpiPhase = "rendered"
    /\ dpiPrev = << >>
    /\ dpiPrev' = [change |-> "none", cfg |-> cfg, image |-> dpiImage,
                    toCreate |-> toCreate, toDelete |-> toDelete]
    /\ dpiPhase' = "configured"
    /\ UNCHANGED <<cfg, toCreate, toDelete, dpiImage, ctlVars, renVars, conVars, bunVars>>

NextDPI ==
    RenderDPI \/ ChangeLicense \/ RotateNodeSecret \/ ResolveImages \/ ObjectsAgain

SpecDPI == InitDPI /\ [][NextDPI]_vars

\* The renderer's variables while the controllers are exercised.
DPIIdle ==
    /\ cfg = << >>
    /\ dpiPhase = "unused"
    /\ toCreate = << >>
    /\ toDelete = << >>
    /\ dpiPrev = << >>
    /\ dpiImage = ""

Init ==
    /\ DPIIdle
    /\ RenIdle
    /\ ConIdle
    /\ ctl \in Controllers
    /\ pc = "idle"
    /\ loc = InitLoc
    /\ res = InitRes
    /\ prev = NoPrev
    /\ cluster \in InitCluster
    /\ BunIdle

APIServerNext ==
    \/ AS_GetAPIServer \/ AS_GetInstallation \/ AS_CreateCA \/ AS_TLSKeyPair
    \/ AS_PullSecrets \/ AS_GetManagementCluster \/ AS_GetManagementClusterConnection
    \/ AS_CheckTopology \/ AS_Tunnel \/ AS_Amazon \/ AS_Endpoint \/ AS_Render
    \/ AS_PacketCapture \/ AS_ApplyImageSet \/ AS_Apply \/ AS_Finish

ConnectionNext ==
    \/ CC_GetInstallation \/ CC_GetManagementCluster
    \/ CC_GetManagementClusterConnection \/ CC_CheckTopology \/ CC_PullSecrets
    \/ CC_CreateCA \/ CC_TunnelSecret \/ CC_GetCertificate \/ CC_Render
    \/ CC_ApplyImageSet \/ CC_Apply \/ CC_Finish

ComplianceNext ==
    \/ CO_GetCompliance \/ CO_APIServerReady \/ CO_LicenseAPIReady \/ CO_FetchLicense
    \/ CO_GetInstallation \/ CO_PullSecrets \/ CO_ESClusterConfig
    \/ CO_GetManagementCluster \/ CO_GetManagementClusterConnection
    \/ CO_CheckTopology \/ CO_ESSecrets \/ CO_CreateCA \/ CO_ManagerInternalCert
    \/ CO_GatewayCert \/ CO_ServerKeyPair \/ CO_Authentication \/ CO_KeyValidator
    \/ CO_Render \/ CO_ApplyImageSet \/ CO_Apply \/ CO_Finish

Next == StartPass \/ EnvChange \/ APIServerNext \/ ConnectionNext \/ ComplianceNext

Spec == Init /\ [][Next]_vars

(***************************************************************************)
(*   The ES gateway and kube-controllers renderers, as their tests pin     *)
(*   them: the order of the rendered objects and the deployment's          *)
(*   scheduling fields.                                                    *)
(***************************************************************************)
ElasticsearchNamespace == "tigera-elasticsearch"
CalicoNamespace        == "calico-system"

\* package esgateway
DeploymentName     == "tigera-secure-es-gateway"
ServiceName        == "tigera-secure-es-gateway-http"
RoleName           == "tigera-secure-es-gateway"
ServiceAccountName == "tigera-secure-es-gateway"

\* package kubecontrollers
KubeController                 == "calico-kube-controllers"
KubeControllerMetrics          == "calico-kube-controllers-metrics"
EsKubeController               == "es-calico-kube-controllers"
EsKubeControllerMetrics        == "es-calico-kube-controllers-metrics"
\* The secret the deployment's ELASTIC_USER and ELASTIC_PASSWORD refer to.
ElasticsearchKubeControllersUserSecret == "tigera-ee-kube-controllers-elasticsearch-access"
ElasticsearchKubeControllersVerificationUserSecret ==
    "tigera-ee-kube-controllers-elasticsearch-access-gateway-verification"
ElasticsearchKubeControllersSecureUserSecret ==
    "tigera-ee-kube-controllers-elasticsearch-access-gateway"

\* An object of which the tests pin kind, namespace and name only.
Obj(k, ns, n) == [kind |-> k, namespace |-> ns, name |-> n, spec |-> << >>]

\* podaffinity.NewPodAntiAffinity(name, namespace); Nil is the nil pointer.
Nil == [antiAffinity |-> << >>]
NewPodAntiAffinity(n, ns) == [antiAffinity |-> <<n, ns>>]

EsGatewayConfigs ==
    [ kind                     : {"esgateway"},
      ControlPlaneReplicas     : 1..MaxReplicas,
      CertificateManagement    : BOOLEAN,
      ControlPlaneNodeSelector : BOOLEAN,
      PullSecrets              : SeqUpTo(PullSecretNames, MaxPullSecrets) ]

KubeControllersConfigs ==
    [ kind              : {"kube-controllers"},
      Elasticsearch     : BOOLEAN,   \* NewElasticsearchKubeControllers / NewCalicoKubeControllers
      UsePSP            : BOOLEAN,
      Metrics           : BOOLEAN,   \* the metrics service is rendered (enterprise, MetricsPort # 0)
      ManagerInternalSecret : BOOLEAN,  \* ManagerInternalSecret # nil
      GatewaySecret     : BOOLEAN ]  \* KubeControllersGatewaySecret # nil

\* An ES gateway whose deployment gets the anti-affinity from three replicas on.
EsGatewayDeploymentFromThree(c) ==
    [kind |-> "Deployment", namespace |-> ElasticsearchNamespace, name |-> DeploymentName,
     spec |-> [serviceAccountName |-> ServiceAccountName,
               imagePullSecrets   |-> c.PullSecrets,
               affinity           |-> IF c.ControlPlaneReplicas > 2
                                      THEN NewPodAntiAffinity(DeploymentName,
                                                              ElasticsearchNamespace)
                                      ELSE Nil,
               nodeSelector       |-> c.ControlPlaneNodeSelector,
               containers         |-> << [name |-> DeploymentName, envSecrets |-> {}] >>,
               volumes            |-> << >>]]

\* The deployment of EsGateway(cfg).Objects()
EsGatewayDeployment(c) ==
    [kind |-> "Deployment", namespace |-> ElasticsearchNamespace, name |-> DeploymentName,
     spec |-> [serviceAccountName |-> ServiceAccountName,
               imagePullSecrets   |-> c.PullSecrets,
               affinity           |-> IF c.ControlPlaneReplicas > 1
                                      THEN NewPodAntiAffinity(DeploymentName,
                                                              ElasticsearchNamespace)
                                      ELSE Nil,
               nodeSelector       |-> c.ControlPlaneNodeSelector,
               containers         |-> << [name |-> DeploymentName, envSecrets |-> {}] >>,
               volumes            |-> << >>]]

\* The first result of EsGateway(cfg).Objects()
EsGatewayObjects(c) ==
    << Obj("Secret", OperatorNamespace, ElasticsearchKubeControllersUserSecret),
       Obj("Secret", ElasticsearchNamespace, ElasticsearchKubeControllersVerificationUserSecret),
       Obj("Secret", ElasticsearchNamespace, ElasticsearchKubeControllersSecureUserSecret),
       Obj("Service", ElasticsearchNamespace, ServiceName),
       Obj("Role", ElasticsearchNamespace, RoleName),
       Obj("RoleBinding", ElasticsearchNamespace, RoleName),
       Obj("ServiceAccount", ElasticsearchNamespace, ServiceAccountName),
       EsGatewayDeployment(c),
       Obj("Secret", OperatorNamespace, PublicCertSecret) >>

\* The deployment of the kube-controllers component
KubeControllersDeployment(c) ==
    LET n == IF c.Elasticsearch THEN EsKubeController ELSE KubeController
    IN  [kind |-> "Deployment", namespace |-> CalicoNamespace, name |-> n,
         spec |-> [serviceAccountName |-> n,
                   imagePullSecrets   |-> << >>,
                   affinity           |-> Nil,
                   nodeSelector       |-> FALSE,
                   containers         |-> << [name |-> n,
                                              envSecrets |->
                                                 IF c.Elasticsearch
                                                 THEN {ElasticsearchKubeControllersUserSecret}
                                                 ELSE {}] >>,
                   volumes            |->
                       IF c.Elasticsearch /\ c.ManagerInternalSecret
                       THEN << [name   |-> ManagerInternalTLSSecretName,
                                source |-> "secret",
                                ref    |-> ManagerInternalTLSSecretName] >>
                       ELSE << >>]]

\* The first result of NewCalicoKubeControllers(cfg).Objects() and of
\* NewElasticsearchKubeControllers(cfg).Objects()
KubeControllersObjects(c) ==
    LET n == IF c.Elasticsearch THEN EsKubeController ELSE KubeController
        m == IF c.Elasticsearch THEN EsKubeControllerMetrics ELSE KubeControllerMetrics
    IN  << Obj("ServiceAccount", CalicoNamespace, n),
           Obj("ClusterRole", "", n),
           Obj("ClusterRoleBinding", "", n),
           KubeControllersDeployment(c) >>
        \o (IF c.Elasticsearch /\ c.GatewaySecret
            THEN << Obj("Secret", CalicoNamespace, ElasticsearchKubeControllersUserSecret) >>
            ELSE << >>)
        \o (IF c.UsePSP THEN << Obj("PodSecurityPolicy", "", n) >> ELSE << >>)
        \o (IF c.Metrics THEN << Obj("Service", CalicoNamespace, m) >> ELSE << >>)

InitRender ==
    /\ rcfg \in EsGatewayConfigs \cup KubeControllersConfigs
    /\ robjs = << >>
    /\ DPIIdle
    /\ CtlIdle
    /\ ConIdle
    /\ BunIdle

\* EsGateway(cfg).Objects()
RenderEsGateway ==
    /\ rcfg.kind = "esgateway"
    /\ robjs = << >>
    /\ robjs' = EsGatewayObjects(rcfg)
    /\ UNCHANGED <<rcfg, dpiVars, ctlVars, conVars, bunVars>>

\* NewCalicoKubeControllers(cfg).Objects(), NewElasticsearchKubeControllers(cfg).Objects()
RenderKubeControllers ==
    /\ rcfg.kind = "kube-controllers"
    /\ robjs = << >>
    /\ robjs' = KubeControllersObjects(rcfg)
    /\ UNCHANGED <<rcfg, dpiVars, ctlVars, conVars, bunVars>>

NextRender == RenderEsGateway \/ RenderKubeControllers

SpecRender == InitRender /\ [][NextRender]_vars

(***************************************************************************)
(*   Passes of the three controllers running at the same time: what they   *)
(*   share is the cluster (the stored root authority, the endpoint         *)
(*   ConfigMap) and the package-level variable k8sapi.Endpoint.            *)
(***************************************************************************)
StoredCA == 1

\* The authority a controller's pass generates when none is stored. Two
\* generated authorities have different private keys.
GeneratedCA(c) ==
    CASE c = "apiserver"  -> 2
      [] c = "connection" -> 3
      [] c = "compliance" -> 4

\* certificatemanager.Create(cli, installation, clusterDomain): the authority
\* the returned certificate manager signs with. The stored authority is used
\* when there is one; otherwise the manager holds a new one, and the store is
\* left as it was (the caller of getTLS creates the authority's secret itself
\* after Create returned).
Create(store, c) == IF store # 0 THEN store ELSE GeneratedCA(c)

Endpoints == {"10.0.0.1:443", "api.internal:6443"}

ConInitLoc == [ca |-> 0, wrote |-> "", copied |-> ""]

InitConc ==
    /\ caStore \in {0, StoredCA}
    /\ endpointCfg \in Endpoints
    /\ k8sEndpoint = ""
    /\ cpc = [c \in Controllers |-> "idle"]
    /\ cloc = [c \in Controllers |-> ConInitLoc]
    /\ issued = {}
    /\ DPIIdle
    /\ CtlIdle
    /\ RenIdle
    /\ BunIdle

\* controller-runtime calls a controller's Reconcile; one pass per controller
\* at a time.
ConStart(c) ==
    /\ cpc[c] = "idle"
    /\ cpc' = [cpc EXCEPT ![c] = "create"]
    /\ cloc' = [cloc EXCEPT ![c] = ConInitLoc]
    /\ UNCHANGED <<caStore, k8sEndpoint, endpointCfg, issued, dpiVars, ctlVars, renVars, bunVars>>

\* certificatemanager.Create in a controller's pass
ConCreate(c) ==
    /\ cpc[c] = "create"
    /\ \E ok \in BOOLEAN :
          IF ok
          THEN /\ cloc' = [cloc EXCEPT ![c].ca = Create(caStore, c)]
               /\ cpc' = [cpc EXCEPT ![c] = "keypair"]
          ELSE /\ cpc' = [cpc EXCEPT ![c] = "done"]
               /\ UNCHANGED cloc
    /\ UNCHANGED <<caStore, k8sEndpoint, endpointCfg, issued, dpiVars, ctlVars, renVars, bunVars>>

\* certificateManager.GetOrCreateKeyPair for the API server's TLS secret
ConAPIServerKeyPair ==
    /\ cpc["apiserver"] = "keypair"
    /\ issued' = issued \cup {cloc["apiserver"].ca}
    /\ cpc' = [cpc EXCEPT !["apiserver"] = "endpoint"]
    /\ UNCHANGED <<cloc, caStore, k8sEndpoint, endpointCfg, dpiVars, ctlVars, renVars, bunVars>>

\* utils.GetK8sServiceEndPoint(r.client): reads the ConfigMap into k8sapi.Endpoint
ConAPIServerEndpoint ==
    /\ cpc["apiserver"] = "endpoint"
    /\ \E ok \in BOOLEAN :
          IF ok
          THEN /\ k8sEndpoint' = endpointCfg
               /\ cloc' = [cloc EXCEPT !["apiserver"].wrote = endpointCfg]
               /\ cpc' = [cpc EXCEPT !["apiserver"] = "config"]
          ELSE /\ cpc' = [cpc EXCEPT !["apiserver"] = "done"]
               /\ UNCHANGED <<k8sEndpoint, cloc>>
    /\ UNCHANGED <<caStore, endpointCfg, issued, dpiVars, ctlVars, renVars, bunVars>>

\* apiServerCfg := render.APIServerConfiguration{K8SServiceEndpoint: k8sapi.Endpoint, ...}
ConAPIServerConfig ==
    /\ cpc["apiserver"] = "config"
    /\ cloc' = [cloc EXCEPT !["apiserver"].copied = k8sEndpoint]
    /\ cpc' = [cpc EXCEPT !["apiserver"] = "done"]
    /\ UNCHANGED <<caStore, k8sEndpoint, endpointCfg, issued, dpiVars, ctlVars, renVars, bunVars>>

\* A connection pass that refreshes the package-level endpoint as well.
ConConnectionCertificatesRefreshingEndpoint ==
    /\ cpc["connection"] = "keypair"
    /\ cpc' = [cpc EXCEPT !["connection"] = "done"]
    /\ k8sEndpoint' = endpointCfg
    /\ UNCHANGED <<cloc, caStore, endpointCfg, issued, dpiVars, ctlVars, renVars, bunVars>>

\* The connection pass after Create: the tunnel secret, the trusted bundle and
\* its certificates, render.Guardian and the apply. It issues no key pair and
\* does not refer to k8sapi.Endpoint.
ConConnectionCertificates ==
    /\ cpc["connection"] = "keypair"
    /\ cpc' = [cpc EXCEPT !["connection"] = "done"]
    /\ UNCHANGED <<cloc, caStore, k8sEndpoint, endpointCfg, issued, dpiVars, ctlVars, renVars, bunVars>>

\* certificateManager.GetOrCreateKeyPair for the compliance server
ConComplianceKeyPair ==
    /\ cpc["compliance"] = "keypair"
    /\ issued' = issued \cup {cloc["compliance"].ca}
    /\ cpc' = [cpc EXCEPT !["compliance"] = "done"]
    /\ UNCHANGED <<cloc, caStore, k8sEndpoint, endpointCfg, dpiVars, ctlVars, renVars, bunVars>>

\* Reconcile returns.
ConFinish(c) ==
    /\ cpc[c] = "done"
    /\ cpc' = [cpc EXCEPT ![c] = "idle"]
    /\ UNCHANGED <<cloc, caStore, k8sEndpoint, endpointCfg, issued, dpiVars, ctlVars, renVars, bunVars>>

\* The administrator edits the kubernetes-services-endpoint ConfigMap.
ConChangeEndpoint ==
    /\ \E e \in Endpoints \ {endpointCfg} : endpointCfg' = e
    /\ UNCHANGED <<caStore, k8sEndpoint, cpc, cloc, issued, dpiVars, ctlVars, renVars, bunVars>>

NextConc ==
    \/ \E c \in Controllers : ConStart(c)
    \/ \E c \in Controllers : ConCreate(c)
    \/ ConAPIServerKeyPair
    \/ ConAPIServerEndpoint
    \/ ConAPIServerConfig
    \/ ConConnectionCertificates
    \/ ConComplianceKeyPair
    \/ \E c \in Controllers : ConFinish(c)
    \/ ConChangeEndpoint

SpecConc == InitConc /\ [][NextConc]_vars

(***************************************************************************)
(*                            Trusted bundles                              *)
(*                                                                         *)
(* Two bundles are built from the same certificates: each caller passes    *)
(* some of them to CreateTrustedBundle and adds the others one by one with *)
(* AddCertificates, in an order of its own.                                *)
(***************************************************************************)
\* The orders in which the certificates of set S can be handed over.
Orders(S) ==
    { o \in [1..Cardinality(S) -> S] : \A i, j \in DOMAIN o : o[i] = o[j] => i = j }

Builders == {1, 2}

InitBundle ==
    /\ \E S \in SUBSET Certificates :
          /\ Cardinality(S) <= MaxCerts
          /\ \E o1 \in Orders(S), o2 \in Orders(S), k1 \in 0..Cardinality(S),
                k2 \in 0..Cardinality(S) :
                bun = [ order   |-> <<o1, o2>>,   \* the order each caller uses
                        first   |-> <<k1, k2>>,   \* how many go to CreateTrustedBundle
                        created |-> <<FALSE, FALSE>>,
                        added   |-> <<0, 0>>,     \* how many were handed over
                        bundle  |-> << << >>, << >> >> ]
    /\ DPIIdle
    /\ CtlIdle
    /\ RenIdle
    /\ ConIdle

\* trustedBundle := certificateManager.CreateTrustedBundle(certificates...)
BunCreate ==
    /\ \E b \in Builders :
          /\ ~bun.created[b]
          /\ bun' = [bun EXCEPT
                        !.created[b] = TRUE,
                        !.added[b]   = bun.first[b],
                        !.bundle[b]  = CreateTrustedBundle(
                                           SubSeq(bun.order[b], 1, bun.first[b]))]
    /\ UNCHANGED <<dpiVars, ctlVars, renVars, conVars>>

\* trustedBundle.AddCertificates(secret)
BunAdd ==
    /\ \E b \in Builders :
          /\ bun.created[b]
          /\ bun.added[b] < Len(bun.order[b])
          /\ bun' = [bun EXCEPT
                        !.added[b]  = @ + 1,
                        !.bundle[b] = AddCertificates(@, bun.order[b][bun.added[b] + 1])]
    /\ UNCHANGED <<dpiVars, ctlVars, renVars, conVars>>

NextBundle == BunCreate \/ BunAdd

SpecBundle == InitBundle /\ [][NextBundle]_vars

(***************************************************************************)
(*        The API-server controller while its inputs stay valid            *)
(*                                                                         *)
(* The APIServer CR and the Installation stay present with a variant, at   *)
(* most one of ManagementCluster and ManagementClusterConnection exists,   *)
(* every read and every CreateOrUpdateOrDelete succeeds. The status        *)
(* manager and the update of the CR status answer as they like.            *)
(* controller-runtime calls Reconcile once, and again after every pass     *)
(* that returned an error or a RequeueAfter.                               *)
(***************************************************************************)
InitLive ==
    /\ ctl = "apiserver"
    /\ pc = "idle"
    /\ loc = InitLoc
    /\ res = InitRes
    /\ prev = NoPrev
    /\ cluster \in InitCluster
    /\ cluster.variant # ""
    /\ ~(cluster.mc /\ cluster.mcc)
    /\ DPIIdle
    /\ RenIdle
    /\ ConIdle
    /\ BunIdle

\* The request is in the work queue: no pass has run yet, or the last pass
\* returned an error or a Result with RequeueAfter.
Requeued == res.exit = "none" \/ res.err \/ res.requeueAfter > 0

LiveStart == Requeued /\ StartPass

\* The returns a pass can take while its inputs are valid and every apply
\* succeeds.
ValidExits == {"none", "notAvailable", "statusUpdateError", "ready"}

\* The step takes none of the returns that a missing or invalid input or a
\* failed apply leads to.
InputsValid == res'.exit \in ValidExits

NextLive ==
    \/ LiveStart
    \/ (AS_GetAPIServer /\ InputsValid)
    \/ (AS_GetInstallation /\ InputsValid)
    \/ (AS_CreateCA /\ InputsValid)
    \/ (AS_TLSKeyPair /\ InputsValid)
    \/ (AS_PullSecrets /\ InputsValid)
    \/ (AS_GetManagementCluster /\ InputsValid)
    \/ (AS_GetManagementClusterConnection /\ InputsValid)
    \/ (AS_CheckTopology /\ InputsValid)
    \/ (AS_Tunnel /\ InputsValid)
    \/ (AS_Amazon /\ InputsValid)
    \/ (AS_Endpoint /\ InputsValid)
    \/ (AS_Render /\ InputsValid)
    \/ (AS_PacketCapture /\ InputsValid)
    \/ (AS_ApplyImageSet /\ InputsValid)
    \/ (AS_Apply /\ InputsValid)
    \/ (AS_Finish /\ InputsValid)

SpecLive == InitLive /\ [][NextLive]_vars /\ WF_vars(NextLive)

(***************************************************************************)
(*                      Properties of the renderer                         *)
(***************************************************************************)
NamespaceId == Identity(CreateNamespace(DeepPacketInspectionNamespace))

\* The objects the feature owns whatever its secrets are.
OwnedWorkloadIds ==
    { Identity(dpiServiceAccount(cfg)), Identity(dpiClusterRole(cfg)),
      Identity(dpiClusterRoleBinding(cfg)), Identity(dpiDaemonset(cfg)) }

CopiedPullSecretIds ==
    Identities(CopyToNamespace(DeepPacketInspectionNamespace, cfg.PullSecrets))

CopiedESSecretIds ==
    Identities(CopyToNamespace(DeepPacketInspectionNamespace, cfg.ESSecrets))

PublicCertSecretId ==
    Identity(SecretIn(DeepPacketInspectionNamespace, PublicCertSecret))

\* C1: whatever the configuration, no identity (kind, namespace, name) is in
\* both the toCreate and the toDelete list returned by Objects.
C1_Disjoint ==
    dpiPhase = "rendered" => Identities(toCreate) \cap Identities(toDelete) = {}

\* A render whose two lists are both non-empty (license active, no DPI resource).
C1_Witness ==
    /\ dpiPhase = "rendered"
    /\ toCreate # << >>
    /\ toDelete # << >>
    /\ Len(cfg.PullSecrets) > 0

\* C2: with HasNoLicense, toCreate is empty and toDelete holds the namespace and
\* every object the enabled feature creates: the copied ES secrets, the copied
\* pull secrets, service account, cluster role, cluster role binding, daemonset.
C2_NoLicenseDeletesAll ==
    (dpiPhase = "rendered" /\ cfg.HasNoLicense) =>
        /\ toCreate = << >>
        /\ ({NamespaceId} \cup CopiedESSecretIds \cup CopiedPullSecretIds
               \cup OwnedWorkloadIds) \subseteq Identities(toDelete)

C4_SameIdentitiesMoved ==
    (/\ dpiPhase = "rendered"
     /\ dpiPrev # << >>
     /\ dpiPrev.change = "license"
     /\ ~cfg.HasNoDPIResource) =>
        /\ cfg.HasNoLicense =>
               /\ Identities(toDelete) = Identities(dpiPrev.toCreate)
               /\ toCreate = << >>
        /\ dpiPrev.cfg.HasNoLicense =>
               /\ Identities(dpiPrev.toDelete) = Identities(toCreate)
               /\ dpiPrev.toCreate = << >>

\* The daemonsets and cluster roles of the last render, in either list.
RenderedDaemonsets == {o \in Range(toCreate \o toDelete) : o.kind = "DaemonSet"}
RenderedClusterRoles == {o \in Range(toCreate \o toDelete) : o.kind = "ClusterRole"}

\* The pod template mounts certificate material: the trusted bundle or the
\* node key pair.
MountsCertificates(ds) ==
    \E i \in DOMAIN ds.spec.volumes :
        ds.spec.volumes[i].name \in {TrustedBundleVolume.name, "node-certs"}

\* The feature is enabled: licensed, and a DPI resource exists.
DPIEnabled(c) == ~c.HasNoLicense /\ ~c.HasNoDPIResource

\* C17: the daemonset has the node key pair's init container exactly when the
\* key pair uses certificate management, and then no volume of the pod is a
\* secret volume holding the node key pair.
C17_InitContainerIffCertificateManagement ==
    dpiPhase = "rendered" =>
        \A ds \in RenderedDaemonsets :
            /\ (NodeSecretInitContainer \in Range(ds.spec.initContainers))
                   <=> cfg.UseCertificateManagement
            /\ Len(ds.spec.initContainers) <= 1
            /\ cfg.UseCertificateManagement =>
                   \A i \in DOMAIN ds.spec.volumes :
                       ds.spec.volumes[i].name = "node-certs" =>
                           ds.spec.volumes[i].source # "secret"

C17_Witness ==
    /\ dpiPhase = "rendered"
    /\ cfg.UseCertificateManagement
    /\ DPIEnabled(cfg)
    /\ \E ds \in RenderedDaemonsets : ds.spec.initContainers # << >>

\* An object without the node key pair's hash annotation.
WithoutNodeAnnotation(o) ==
    IF o.kind = "DaemonSet"
    THEN [o EXCEPT !.spec.annotations = {p \in @ : p[1] # NodeSecretAnnotationKey}]
    ELSE o

\* Two lists are the same but for the node key pair's hash annotation.
SameButNodeAnnotation(a, b) ==
    /\ Len(a) = Len(b)
    /\ \A i \in 1..Len(a) : WithoutNodeAnnotation(a[i]) = WithoutNodeAnnotation(b[i])

\* C18 as stated: a rendered daemonset that mounts certificate material
\* carries every hash annotation of the trusted bundle and the hash annotation
\* of the node key pair; and a render after a rotation of the node key pair
\* differs from the render before in the value of that annotation only.
C18_Original ==
    /\ dpiPhase = "rendered" =>
          \A ds \in RenderedDaemonsets :
              MountsCertificates(ds) =>
                  /\ cfg.TrustedBundle \subseteq ds.spec.annotations
                  /\ <<NodeSecretAnnotationKey, cfg.NodeSecretHash>> \in ds.spec.annotations
    /\ (dpiPhase = "rendered" /\ dpiPrev # << >> /\ dpiPrev.change = "rotation") =>
          /\ SameButNodeAnnotation(toCreate, dpiPrev.toCreate)
          /\ SameButNodeAnnotation(toDelete, dpiPrev.toDelete)

\* C18 as amended: while the feature is enabled the daemonset carries every
\* hash annotation of the trusted bundle and the hash annotation of the node
\* key pair; while it is not, the daemonset rendered for deletion mounts the
\* same volumes and carries neither. A render after a rotation of the node key
\* pair differs from the render before in the value of that annotation only,
\* and differs in it exactly when the feature is enabled.
C18_Amended ==
    /\ dpiPhase = "rendered" =>
          \A ds \in RenderedDaemonsets :
              /\ MountsCertificates(ds)
              /\ IF DPIEnabled(cfg)
                 THEN /\ ds \in Range(toCreate)
                      /\ cfg.TrustedBundle \subseteq ds.spec.annotations
                      /\ <<NodeSecretAnnotationKey, cfg.NodeSecretHash>> \in ds.spec.annotations
                 ELSE /\ ds \in Range(toDelete)
                      /\ \A p \in ds.spec.annotations :
                            p[1] \notin {NodeSecretAnnotationKey, TrustedBundleAnnotationKey}
    /\ (dpiPhase = "rendered" /\ dpiPrev # << >> /\ dpiPrev.change = "rotation") =>
          /\ SameButNodeAnnotation(toCreate, dpiPrev.toCreate)
          /\ SameButNodeAnnotation(toDelete, dpiPrev.toDelete)
          /\ toDelete = dpiPrev.toDelete
          /\ (toCreate # dpiPrev.toCreate) <=> DPIEnabled(cfg)

C18_Witness ==
    /\ dpiPhase = "rendered"
    /\ dpiPrev # << >>
    /\ dpiPrev.change = "rotation"
    /\ DPIEnabled(cfg)
    /\ cfg.TrustedBundle # {}
    /\ toCreate # dpiPrev.toCreate

RunsPrivileged ==
    \E ds \in RenderedDaemonsets :
        \E i \in DOMAIN ds.spec.containers : ds.spec.containers[i].privileged

\* The rendered cluster role grants the use of the pod security policy.
GrantsPodSecurityPolicy ==
    \E cr \in RenderedClusterRoles :
        \E i \in DOMAIN cr.spec :
            /\ "podsecuritypolicies" \in cr.spec[i].resources
            /\ "use" \in cr.spec[i].verbs

\* C20: in every render exactly one of the two platform-specific fields is
\* present: the container runs privileged, or the cluster role grants the use
\* of the pod security policy.
C20_ExactlyOnePlatformField ==
    dpiPhase = "rendered" => (RunsPrivileged # GrantsPodSecurityPolicy)

\* The configuration of scenario A: license active, DPI resource present, a
\* provider other than OpenShift, no certificate management, no secrets.
ScenarioA(c) ==
    /\ ~c.HasNoLicense
    /\ ~c.HasNoDPIResource
    /\ c.Provider # ProviderOpenShift
    /\ ~c.UseCertificateManagement
    /\ c.PullSecrets = << >>
    /\ c.ESSecrets = << >>

\* C21: in scenario A toCreate holds exactly the namespace, the service
\* account, the cluster role, the cluster role binding and the daemonset, and
\* toDelete is empty.
C21_ScenarioA ==
    (dpiPhase = "rendered" /\ ScenarioA(cfg)) =>
        /\ toDelete = << >>
        /\ Len(toCreate) = 5
        /\ [i \in 1..Len(toCreate) |-> Identity(toCreate[i])] =
              << <<"Namespace", "", DeepPacketInspectionNamespace>>,
                 <<"ServiceAccount", DeepPacketInspectionNamespace, DeepPacketInspectionName>>,
                 <<"ClusterRole", "", DeepPacketInspectionName>>,
                 <<"ClusterRoleBinding", "", DeepPacketInspectionName>>,
                 <<"DaemonSet", DeepPacketInspectionNamespace, DeepPacketInspectionName>> >>

C21_Witness ==
    /\ dpiPhase = "rendered"
    /\ ScenarioA(cfg)
    /\ dpiPrev = << >>
    /\ Len(toCreate) = 5

\* The secrets and the service account a workload refers to, by identity:
\* its service account, its image pull secrets, its secret volumes and the
\* secrets its containers' environment reads.
References(w) ==
    {<<"ServiceAccount", w.namespace, w.spec.serviceAccountName>>}
    \cup {<<"Secret", w.namespace, n>> : n \in Range(w.spec.imagePullSecrets)}
    \cup {<<"Secret", w.namespace, w.spec.volumes[i].ref>> :
              i \in {j \in DOMAIN w.spec.volumes : w.spec.volumes[j].source = "secret"}}
    \cup {<<"Secret", w.namespace, n>> :
              n \in UNION {w.spec.containers[i].envSecrets : i \in DOMAIN w.spec.containers}}

\* In a list, every secret and service account precedes every Deployment and
\* DaemonSet that refers to it.
DependenciesFirst(objs) ==
    \A i, j \in 1..Len(objs) :
        (/\ objs[i].kind \in {"Secret", "ServiceAccount"}
         /\ objs[j].kind \in {"Deployment", "DaemonSet"}
         /\ Identity(objs[i]) \in References(objs[j])) => i < j

\* C13: in the toCreate list of every render, each secret and service account
\* precedes every workload that refers to it.
C13_DependenciesBeforeWorkloads ==
    /\ DependenciesFirst(toCreate)
    /\ DependenciesFirst(robjs)

\* The deep packet inspection renderer does emit them in that order.
DPIDependenciesFirst ==
    dpiPhase = "rendered" => DependenciesFirst(toCreate)

\* C16: the ES gateway deployment has no affinity with one replica, and the
\* anti-affinity for (DeploymentName, Elasticsearch namespace) with more.
C16_AffinityBoundary ==
    (robjs # << >> /\ rcfg.kind = "esgateway") =>
        /\ \E d \in Range(robjs) : d.kind = "Deployment" /\ d.name = DeploymentName
        /\ \A d \in Range(robjs) :
              (d.kind = "Deployment" /\ d.name = DeploymentName) =>
                  /\ rcfg.ControlPlaneReplicas = 1 => d.spec.affinity = Nil
                  /\ rcfg.ControlPlaneReplicas > 1 =>
                        d.spec.affinity =
                            NewPodAntiAffinity(DeploymentName, ElasticsearchNamespace)

C16_Witness ==
    /\ robjs # << >>
    /\ rcfg.kind = "esgateway"
    /\ rcfg.ControlPlaneReplicas = 2
    /\ \E d \in Range(robjs) : d.kind = "Deployment" /\ d.spec.affinity # Nil

(***************************************************************************)
(*                     Properties of concurrent passes                     *)
(***************************************************************************)
\* C11: when no root authority is stored, all key pairs the passes issue are
\* signed by one and the same authority.
C11_OneAuthority ==
    caStore = 0 => Cardinality(issued) <= 1

\* With a stored authority every pass signs with it.
StoredAuthoritySigns ==
    caStore # 0 => issued \subseteq {caStore}

\* C12: the endpoint an API-server pass copies into its configuration is the
\* one the same pass wrote into k8sapi.Endpoint: no pass of another controller
\* changes it in between.
C12_EndpointReadIsOwnWrite ==
    /\ cpc["apiserver"] = "config" => k8sEndpoint = cloc["apiserver"].wrote
    /\ (cpc["apiserver"] = "done" /\ cloc["apiserver"].copied # "") =>
           cloc["apiserver"].copied = cloc["apiserver"].wrote

C12_Witness ==
    /\ cpc["apiserver"] = "done"
    /\ cloc["apiserver"].copied # ""
    /\ cloc["apiserver"].copied # endpointCfg
    /\ cpc["connection"] = "done"
    /\ cpc["compliance"] = "keypair"

(***************************************************************************)
(*                     Properties of the controllers                       *)
(***************************************************************************)
\* C14: once a pass has produced a trusted bundle, no step of the pass changes
\* what that bundle holds: AddCertificates yields another bundle and leaves
\* the one it was called on as it was.
C14_BundleNeverModified ==
    [][(pc # "idle" /\ loc.bundle # << >>) => loc'.bundle = loc.bundle]_vars

\* The compliance controller hands all certificates to CreateTrustedBundle,
\* and its bundle stays as produced.
ComplianceBundleNeverModified ==
    [][(ctl = "compliance" /\ pc # "idle" /\ loc.bundle # << >>) =>
          loc'.bundle = loc.bundle]_vars

\* C15: a pass in which certificatemanager.Create failed set the degraded
\* condition, returned the error, and asked for no key pair or certificate,
\* rendered nothing and applied nothing.
C15_CreateFailureStopsPass ==
    res.exit = "caError" =>
        /\ pc = "idle"
        /\ res.degraded = "set"
        /\ res.reason = "Unable to create the Tigera CA"
        /\ res.err
        /\ ~res.keyPair
        /\ ~res.rendered
        /\ res.applied = << >>
        /\ res.mut = 0
        /\ loc.bundle = << >>

C15_Witness ==
    /\ ctl = "apiserver"
    /\ pc = "idle"
    /\ res.exit = "caError"
    /\ res.degraded = "set"
    /\ res.err

\* A pass has returned and nothing happened since.
PassDone == ctl \in Controllers /\ pc = "idle" /\ res.exit # "none"

\* C5: a pass (of the API server controller with the enterprise variant, of
\* the cluster connection or of the compliance controller) that finds both a
\* ManagementCluster and a ManagementClusterConnection sets the status degraded,
\* returns an error, renders nothing and calls CreateOrUpdateOrDelete for
\* nothing; no pass renders or applies while both exist.
C5_BothTopologiesFatal ==
    /\ (PassDone /\ loc.mc /\ loc.mcc) =>
          /\ res.exit = "bothTopologies"
          /\ res.degraded = "set"
          /\ res.reason = BothMsg
          /\ res.err
          /\ ~res.rendered
          /\ res.applied = << >>
    /\ (/\ PassDone
        /\ cluster.mc /\ cluster.mcc
        /\ ctl = "apiserver" => cluster.variant = TigeraSecureEnterprise) =>
          /\ ~res.rendered
          /\ res.applied = << >>

C5_Witness ==
    /\ PassDone
    /\ ctl = "apiserver"
    /\ loc.variant = TigeraSecureEnterprise
    /\ loc.mc /\ loc.mcc
    /\ res.exit = "bothTopologies"

\* C6 as stated: when CreateOrUpdateOrDelete fails for a component of an API
\* server or compliance pass, the other components of the batch are attempted
\* all the same, the status is set degraded and the error is returned.
C6_Original ==
    (PassDone /\ ctl \in {"apiserver", "compliance"} /\ res.applyFailed) =>
        /\ res.applied = loc.components
        /\ res.degraded = "set"
        /\ res.err

\* C6 as amended: when CreateOrUpdateOrDelete fails for a component of an API
\* server or compliance pass, the pass returns at once, so the components
\* after the failed one are not attempted; the status is set degraded with a
\* reason, the error is returned, and the pass neither clears the degraded
\* condition nor sets the CR status to Ready.
C6_Amended ==
    (PassDone /\ ctl \in {"apiserver", "compliance"} /\ res.applyFailed) =>
        /\ loc.idx <= Len(loc.components)
        /\ res.applied = SubSeq(loc.components, 1, loc.idx)
        /\ res.exit = "applyError"
        /\ res.degraded = "set"
        /\ res.reason # ""
        /\ res.err
        /\ ~res.everCleared
        /\ ~res.setReady

C6_Witness ==
    /\ PassDone
    /\ ctl = "apiserver"
    /\ res.applyFailed
    /\ Len(res.applied) = 2
    /\ Len(loc.components) = 5

\* C7: in all three controllers a pass in which CreateOrUpdateOrDelete returned
\* an error sets the status degraded, returns an error, never clears the
\* degraded condition and never sets the CR status to Ready; and the pass that
\* follows it starts at the first step of Reconcile with fresh local variables
\* and nothing applied.
C7_ApplyErrorRestartsPipeline ==
    /\ [](PassDone /\ res.applyFailed =>
             /\ res.degraded = "set"
             /\ res.err
             /\ ~res.everCleared
             /\ ~res.setReady)
    /\ [][(pc = "idle" /\ pc' # "idle" /\ res.applyFailed) =>
             /\ pc' = FirstStep(ctl)
             /\ loc' = InitLoc
             /\ res'.applied = << >>
             /\ ~res'.rendered]_vars

\* A pass of the cluster connection controller that has just started, after a
\* pass whose component failed to apply.
C7_Witness ==
    /\ ctl = "connection"
    /\ prev.failed
    /\ pc = FirstStep(ctl)
    /\ loc = InitLoc

\* The exits a pass takes because a prerequisite is not available yet.
PrerequisiteExits ==
    { "variantEmpty", "apiServerNotReady", "licenseAPINotReady", "licenseMissing",
      "esConfigMissing", "esSecretsMissing", "gwCertMissing", "authnNotReady",
      "trustedCertMissing" }

\* The exits among them that ask to be called again after a delay.
RequeueingExits == { "licenseAPINotReady", "licenseMissing", "trustedCertMissing" }

\* C8 as stated: every exit taken because a prerequisite is not available
\* reports degraded with a reason and asks for a retry after a positive delay.
C8_Original ==
    (PassDone /\ res.exit \in PrerequisiteExits) =>
        /\ res.degraded = "set"
        /\ res.reason # ""
        /\ res.requeueAfter > 0

\* C8 as amended: every exit taken because a prerequisite is not available
\* returns at once with a nil error and reports degraded with a reason; it asks
\* for a retry after a positive delay when the license API is not ready (10 s),
\* the license is missing (10 s) or a trusted certificate secret is missing
\* (5 s), and returns an empty result otherwise.
C8_Amended ==
    (PassDone /\ res.exit \in PrerequisiteExits) =>
        /\ res.degraded = "set"
        /\ res.reason # ""
        /\ ~res.err
        /\ ~res.rendered
        /\ res.exit \in {"licenseAPINotReady", "licenseMissing"} => res.requeueAfter = 10
        /\ res.exit = "trustedCertMissing" => res.requeueAfter = 5
        /\ res.exit \notin RequeueingExits => res.requeueAfter = 0

C8_Witness ==
    /\ PassDone
    /\ res.exit = "licenseAPINotReady"
    /\ res.requeueAfter > 0

\* C9: in a cluster connection pass, a failure to read the guardian tunnel
\* secret that is not a not-found error is returned as an error; a not-found
\* error is reported as degraded with a reason and no error is returned.
C9_TunnelSecretErrors ==
    (PassDone /\ ctl = "connection") =>
        /\ res.exit = "tunnelSecretError" => res.err
        /\ res.exit = "tunnelSecretNotFound" =>
              /\ res.degraded = "set"
              /\ res.reason # ""
              /\ ~res.err

\* C10: a pass that applied all its components, run right after a pass that
\* applied all its components on the same inputs, creates, updates and deletes
\* nothing; it renders what the pass before rendered, generates no tunnel
\* secret and applies no passthrough.
C10_SecondPassIdle ==
    (PassDone /\ AppliedAll(res) /\ prev.complete /\ prev.inputs = res.inputs) =>
        /\ res.mut = 0
        /\ ~res.generated
        /\ loc.passthrough = 0
        /\ \A c \in Components \ {"tunnel-passthrough"} :
              res.desired[c] = prev.desired[c]

\* The same, for two passes that both ended up with a tunnel key pair or both
\* without one. This holds: the second pass changes the cluster only when the
\* first went on without a key pair it failed to generate.
SecondPassIdleUnlessGenerationFailed ==
    (/\ PassDone /\ AppliedAll(res) /\ prev.complete /\ prev.inputs = res.inputs
     /\ SecretOf(prev.desired["apiserver"]) = 0 <=> loc.tunnelCA = 0) =>
        /\ res.mut = 0
        /\ ~res.generated
        /\ loc.passthrough = 0
        /\ \A c \in Components \ {"tunnel-passthrough"} :
              res.desired[c] = prev.desired[c]

\* The API-server pass has executed the tunnel key pair block of a cluster
\* that has a ManagementCluster.
TunnelStepDone ==
    /\ ctl = "apiserver"
    /\ loc.variant = TigeraSecureEnterprise
    /\ loc.mc
    /\ pc \notin {"as_GetManagementClusterConnection", "as_CheckTopology", "as_Tunnel"}
    /\ res.exit \notin {"mccError", "bothTopologies"}

\* C23: in an enterprise API-server pass with a ManagementCluster, the render
\* is invoked only with a tunnel CA key pair that is not nil; a pass that could
\* neither retrieve nor generate one reports degraded with 'Unable to get or
\* create the tunnel secret', returns the error and renders and applies nothing.
C23_TunnelCARequired ==
    TunnelStepDone =>
        /\ res.rendered => loc.tunnelCA # 0
        /\ loc.tunnelCA = 0 =>
              /\ res.exit = "tunnelError"
              /\ res.err
              /\ res.degraded = "set"
              /\ res.reason = "Unable to get or create the tunnel secret"
              /\ ~res.rendered
              /\ res.applied = << >>

\* C24: a pass that returns a non-nil error has set the status degraded and
\* has not cleared it afterwards.
C24_ErrorImpliesDegraded ==
    (PassDone /\ res.err) => res.degraded = "set"

\* The same, leaving out the two returns that come without SetDegraded: the
\* failed status update after ClearDegraded and the failed read of the
\* Installation in the cluster connection pass.
ErrorImpliesDegradedElsewhere ==
    (/\ PassDone /\ res.err
     /\ res.exit # "statusUpdateError"
     /\ ~(ctl = "connection" /\ res.exit = "installationError")) =>
        res.degraded = "set"

\* What the compliance pass reads and waits for before it renders.
CompliancePrerequisites ==
    { "compliance", "apiServerReady", "licenseAPIReady", "license", "installation",
      "esClusterConfig", "esSecrets", "gatewayCert", "authentication" }

\* C25: a compliance pass calls render.Compliance and CreateOrUpdateOrDelete
\* only after it found the Compliance CR, the API server and the license API
\* ready, the license, the installation, the Elasticsearch cluster
\* configuration and user secrets and the gateway certificate, and found the
\* Authentication CR absent or Ready.
C25_RenderAfterPrerequisites ==
    (ctl = "compliance" /\ (res.rendered \/ res.applied # << >>)) =>
        /\ CompliancePrerequisites \subseteq res.checked
        /\ loc.authn \in {"absent", "Ready"}

C25_Witness ==
    /\ ctl = "compliance"
    /\ res.rendered
    /\ res.applied # << >>
    /\ loc.authn = "Ready"

\* One step of an API-server or compliance pass, as C26 requires it.
ReadyOnlyWhenConverged ==
    ctl \in {"apiserver", "compliance"} =>
          /\ (cluster'.crStatus # cluster.crStatus \/ (res'.setReady /\ ~res.setReady)) =>
                /\ res'.exit = "ready"
                /\ res'.rendered
                /\ ~res'.applyFailed
                /\ loc'.components # << >>
                /\ res'.applied = loc'.components
                /\ res'.degraded = "cleared"
                /\ res'.available = "yes"
                /\ cluster'.crStatus = "Ready"
          /\ (res'.available = "no" /\ res.available = "unasked") =>
                /\ pc' = "idle"
                /\ res'.exit = "notAvailable"
                /\ res'.requeueAfter = 30
                /\ ~res'.err
                /\ ~res'.setReady
                /\ cluster'.crStatus = cluster.crStatus

\* C26: the API-server and compliance passes write the Ready status only
\* after every component was applied without error, the degraded condition
\* was cleared and the status manager said available; when it says not
\* available the pass returns RequeueAfter 30 s with a nil error and leaves
\* the CR status as it is.
C26_ReadyOnlyWhenConverged == [][ReadyOnlyWhenConverged]_vars

C26_Witness ==
    /\ PassDone
    /\ ctl = "compliance"
    /\ res.exit = "notAvailable"
    /\ res.available = "no"
    /\ cluster.crStatus = "Ready"

\* C27: a compliance pass whose license lacks the compliance feature still
\* renders and applies its components, then ends degraded with 'Feature is not
\* active', a nil error and no requeue; it never clears the degraded condition
\* and never writes the Ready status.
C27_FeatureNotActive ==
    /\ (ctl = "compliance" /\ loc.hasNoLicense) =>
          /\ ~res.everCleared
          /\ ~res.setReady
          /\ (/\ PassDone /\ res.rendered /\ ~res.applyFailed
              /\ loc.components # << >> /\ res.applied = loc.components) =>
                /\ res.exit = "featureNotActive"
                /\ res.degraded = "set"
                /\ res.reason = "Feature is not active"
                /\ ~res.err
                /\ res.requeueAfter = 0
    /\ (ctl = "compliance" /\ res.exit = "featureNotActive") =>
          /\ loc.hasNoLicense
          /\ res.rendered
          /\ res.applied = <<"compliance", "compliance-certs">>

C27_Witness ==
    /\ PassDone
    /\ ctl = "compliance"
    /\ loc.hasNoLicense
    /\ res.exit = "featureNotActive"
    /\ Len(res.applied) = 2

\* The order in which an API-server pass lists its components.
APIServerOrder ==
    <<"apiserver", "apiserver-certs", "tunnel-passthrough", "packetcapture",
      "packetcapture-certs">>

InList(c) == c \in Range(loc.components)

\* C28: an API-server pass applies its components in the order of the list
\* (API server, its certificate management, the tunnel passthrough if any,
\* packet capture, its certificate management); what was applied is a prefix
\* of the list; the generated tunnel secret is stored only after the API
\* server component was applied successfully.
C28_AppliedInListOrder ==
    ctl = "apiserver" =>
        /\ loc.components = SelectSeq(APIServerOrder, InList)
        /\ Len(res.applied) <= Len(loc.components)
        /\ res.applied = SubSeq(loc.components, 1, Len(res.applied))
        /\ (loc.passthrough # 0 /\ cluster.tunnel = loc.passthrough) =>
              /\ loc.idx > 1
              /\ loc.components[1] = "apiserver"
              /\ cluster.store["apiserver"] = res.desired["apiserver"]

C28_Witness ==
    /\ ctl = "apiserver"
    /\ loc.passthrough # 0
    /\ cluster.tunnel = loc.passthrough
    /\ res.applyFailed
    /\ Len(res.applied) = 4

\* C29: the passthrough is in the batch of an API-server pass exactly when the
\* variant is enterprise, a ManagementCluster exists, no tunnel key pair was
\* stored and the generation succeeded; a stored key pair is used as it is,
\* none is generated and there is no passthrough.
C29_PassthroughWhenGenerated ==
    (ctl = "apiserver" /\ res.rendered) =>
        /\ InList("tunnel-passthrough") <=>
              /\ loc.variant = TigeraSecureEnterprise
              /\ loc.mc
              /\ loc.tunnelStored = 0
              /\ res.generated
        /\ loc.tunnelStored # 0 =>
              /\ loc.tunnelCA = loc.tunnelStored
              /\ ~res.generated
              /\ loc.passthrough = 0
        /\ (res.applied = << >> /\ loc.variant = TigeraSecureEnterprise /\ loc.mc) =>
              loc.tunnelStored = cluster.tunnel

C29_Witness ==
    /\ ctl = "apiserver"
    /\ res.rendered
    /\ loc.tunnelStored # 0
    /\ loc.tunnelCA = loc.tunnelStored
    /\ res.applied # << >>

\* Both bundles hold every certificate of the set.
BundlesBuilt ==
    /\ bun # << >>
    /\ \A b \in Builders : bun.created[b] /\ bun.added[b] = Len(bun.order[b])

\* C22: two trusted bundles built from the same set of certificates have the
\* same content and the same fingerprint, whatever the order in which the
\* certificates were passed to CreateTrustedBundle or added with
\* AddCertificates.
C22_BundleOrderIndependent ==
    BundlesBuilt =>
        /\ TrustedBundlePem(bun.bundle[1]) = TrustedBundlePem(bun.bundle[2])
        /\ TrustedBundleFingerprint(bun.bundle[1]) = TrustedBundleFingerprint(bun.bundle[2])

C22_Witness ==
    /\ BundlesBuilt
    /\ Len(bun.order[1]) = 3
    /\ bun.order[1] # bun.order[2]
    /\ bun.first[1] = 3
    /\ bun.first[2] = 0
    /\ bun.bundle[1] # bun.bundle[2]

\* The step in which the status manager says it is not available.
NotAvailableStep == res.exit = "none" /\ res'.exit = "notAvailable"

\* The step in which the update of the CR status fails.
UpdateFailsStep == res.exit = "none" /\ res'.exit = "statusUpdateError"

\* The CR status is Ready and the last pass asked for no other pass.
Converged ==
    /\ cluster.crStatus = "Ready"
    /\ pc = "idle"
    /\ res.exit = "ready"
    /\ ~res.err
    /\ res.requeueAfter = 0

====
